---- MODULE Spec2Model ----
(***************************************************************************)
(* A state-machine model of crowbook's Book (src/lib/book.rs): the         *)
(* configuration loader read_config, the chapter ingestor add_chapter /    *)
(* add_chapter_from_source with its embedded-block scanner parse_yaml.     *)
(*                                                                         *)
(* Text is modelled as a sequence of lines, a line as a sequence of        *)
(* symbols.  A symbol is one character ("-", "3", " ", "a", ...) or, on    *)
(* lines that no operation cuts inside a word, a whole word standing for   *)
(* its characters ("title", "true").  Chapter-directive lines are always   *)
(* written character by character, because get_filename slices them.       *)
(***************************************************************************)
EXTENDS Integers, Sequences, FiniteSets, TLC

VARIABLES
    chapters,          \* Book.chapters : sequence of [number, tokens]
    filenames,         \* Book.filenames
    options,           \* Book.options : option key -> value
    cleaner,           \* Book.cleaner : "Off" | "Default" | "French"
    source_line,       \* Book.source line cursor (0 = unset)
    chapter_template,  \* Book.chapter_template : "None" | "Some"
    pc,                \* position inside the running call
    input,             \* the lines handed to read_config
    pos,               \* number of lines consumed from the `lines` iterator
    yaml,              \* read_config's accumulation buffer `yaml`
    ystart,            \* index of the first input line held in `yaml`
    flushes,           \* log of read_config's set_options_from_yaml calls
    result,            \* what the last call returned
    dline,             \* a chapter-list line under test
    dres,              \* what the chapter loop's body made of dline
    src,               \* the in-memory source handed to add_chapter_from_source
    handed,            \* the content last handed to Parser::parse (<<>> if none)
    blocks,            \* log of the embedded blocks the last parse_yaml met
    formats,           \* Book.formats : format key -> [description, renderer]
    call,              \* the last call made on the registry or a render entry point
    invoked,           \* log of the renderer invocations that returned
    logged,            \* formats whose rendering error went to the logger
    warned,            \* render_all displayed its "no output file" warning
    tasks,             \* render_all's spawned threads: format -> state
    rpc,               \* position of the thread running render_all
    rindex,            \* number of render_all's `if` statements passed
    handles,           \* the formats whose join handle sits in `handles`
    compiled,          \* number of times the chapter-header template was compiled
    checker,           \* Book.checker : "None" | "Some"
    fetched            \* the last get_template call: [template, ret]

bookVars == <<chapters, filenames, options, cleaner, source_line, chapter_template>>
scanVars == <<pc, input, pos, yaml, ystart, flushes>>
dirVars  == <<dline, dres>>
renderVars == <<formats, call, invoked, logged, warned, tasks, rpc, rindex, handles>>
vars     == <<chapters, filenames, options, cleaner, source_line, chapter_template,
              pc, input, pos, yaml, ystart, flushes, result, dline, dres,
              src, handed, blocks,
              formats, call, invoked, logged, warned, tasks, rpc, rindex, handles,
              compiled, checker, fetched>>

(***************************************************************************)
(* Bounds                                                                  *)
(***************************************************************************)
MaxLineLen == 4
MaxLines == 3
MaxChapters == 1
MaxSegments == 3
I32Max == 2147483647

(***************************************************************************)
(* str helpers of the Rust standard library, as the code uses them         *)
(***************************************************************************)
Digits == {"0", "1", "2", "3", "4", "5", "6", "7", "8", "9"}

is_whitespace(c) == c = " "

is_digit(c) == c \in Digits

DigitVal(c) ==
    CASE c = "0" -> 0 [] c = "1" -> 1 [] c = "2" -> 2 [] c = "3" -> 3
      [] c = "4" -> 4 [] c = "5" -> 5 [] c = "6" -> 6 [] c = "7" -> 7
      [] c = "8" -> 8 [] c = "9" -> 9

RECURSIVE trim_start(_)
trim_start(s) ==
    IF s # <<>> /\ is_whitespace(Head(s)) THEN trim_start(Tail(s)) ELSE s

RECURSIVE trim_end(_)
trim_end(s) ==
    IF s # <<>> /\ is_whitespace(s[Len(s)])
    THEN trim_end(SubSeq(s, 1, Len(s) - 1))
    ELSE s

trim(s) == trim_end(trim_start(s))

RECURSIVE take_word(_)
take_word(s) ==
    IF s = <<>> \/ is_whitespace(Head(s)) THEN <<>>
    ELSE <<Head(s)>> \o take_word(Tail(s))

RECURSIVE split_whitespace(_)
split_whitespace(s) ==
    LET t == trim_start(s) IN
    IF t = <<>> THEN <<>>
    ELSE LET w == take_word(t) IN
         <<w>> \o split_whitespace(SubSeq(t, Len(w) + 1, Len(t)))

starts_with(s, C) == s # <<>> /\ Head(s) \in C

ends_with(s, C) == s # <<>> /\ s[Len(s)] \in C

\* line.splitn(2, |c| c == '.' || c == ':' || c == '+')
NumberDelims == {".", ":", "+"}

splitn2(s) ==
    IF \E i \in 1..Len(s) : s[i] \in NumberDelims
    THEN LET i == CHOOSE k \in 1..Len(s) :
                      /\ s[k] \in NumberDelims
                      /\ \A j \in 1..(k - 1) : s[j] \notin NumberDelims
         IN <<SubSeq(s, 1, i - 1), SubSeq(s, i + 1, Len(s))>>
    ELSE <<s>>

RECURSIVE digits_value(_)
digits_value(s) ==
    IF s = <<>> THEN 0
    ELSE 10 * digits_value(SubSeq(s, 1, Len(s) - 1)) + DigitVal(s[Len(s)])

\* str::parse::<i32>: an optional sign, then digits only, within 32 bits
parse_i32(s) ==
    LET neg  == s # <<>> /\ Head(s) = "-"
        body == IF s # <<>> /\ Head(s) \in {"+", "-"} THEN Tail(s) ELSE s
    IN IF body = <<>> \/ \E i \in 1..Len(body) : ~is_digit(body[i])
       THEN [ok |-> FALSE, val |-> 0]
       ELSE LET v == digits_value(body) IN
            IF neg THEN [ok |-> v <= I32Max + 1, val |-> 0 - v]
            ELSE [ok |-> v <= I32Max, val |-> v]

(***************************************************************************)
(* Results and errors (error::Error's classes)                             *)
(***************************************************************************)
Ok == [st |-> "ok", kind |-> "", msg |-> "", line |-> 0]

Err(kind, msg, line) == [st |-> "err", kind |-> kind, msg |-> msg, line |-> line]

Panic == [st |-> "panic", kind |-> "", msg |-> "", line |-> 0]

NotCalled == [st |-> "none", kind |-> "", msg |-> "", line |-> 0]

\* what get_template returned for a template: Cow::Owned (a file's text) or
\* Cow::Borrowed (a builtin), or an error
Fetched(template, res, owned, text) ==
    [template |-> template, res |-> res, owned |-> owned, text |-> text]

NotFetched == Fetched("", NotCalled, FALSE, <<>>)

MsgWhitespace == "chapter filenames must not contain whitespace"
MsgNoName == "no chapter name specified"
MsgIllFormatted == "ill-formatted line specifying chapter number"
MsgNumber == "error parsing chapter number"
MsgInvalidDef == "found invalid chapter definition in the chapter list"
MsgNotHash == "YAML part of the book is not a valid hashmap"
MsgNotYaml == "YAML block was not valid YAML"

(***************************************************************************)
(* Number (number.rs), as read_config builds it                            *)
(***************************************************************************)
Unnumbered == [tag |-> "Unnumbered", n |-> 0]
Default == [tag |-> "Default", n |-> 0]
Hidden == [tag |-> "Hidden", n |-> 0]
Specified(n) == [tag |-> "Specified", n |-> n]

(***************************************************************************)
(* read_config: the chapter-directive grammar                              *)
(***************************************************************************)
Words(words) ==
    IF Len(words) > 1 THEN [st |-> "err", file |-> <<>>, msg |-> MsgWhitespace]
    ELSE IF Len(words) < 1 THEN [st |-> "err", file |-> <<>>, msg |-> MsgNoName]
    ELSE [st |-> "ok", file |-> words[1], msg |-> ""]

\* fn get_filename: &s[1..] panics on the empty string
get_filename(s) ==
    IF Len(s) < 1 THEN [st |-> "panic", file |-> <<>>, msg |-> ""]
    ELSE Words(split_whitespace(Tail(s)))

DirOk(number, file) == [st |-> "ok", number |-> number, file |-> file, msg |-> ""]
DirErr(msg) == [st |-> "err", number |-> Unnumbered, file |-> <<>>, msg |-> msg]
DirPanic == [st |-> "panic", number |-> Unnumbered, file |-> <<>>, msg |-> ""]
DirSkip == [st |-> "skip", number |-> Unnumbered, file |-> <<>>, msg |-> ""]
DirNone == [st |-> "none", number |-> Unnumbered, file |-> <<>>, msg |-> ""]

WithFile(number, f) ==
    IF f.st = "ok" THEN DirOk(number, f.file)
    ELSE IF f.st = "panic" THEN DirPanic
    ELSE DirErr(f.msg)

Marked(number, line) == WithFile(number, get_filename(line))

\* get_filename(parts[1])? comes first, then parts[0].parse::<i32>()
NumberedParts(f, n) ==
    IF f.st = "panic" THEN DirPanic
    ELSE IF f.st = "err" THEN DirErr(f.msg)
    ELSE IF ~n.ok THEN DirErr(MsgNumber)
    ELSE DirOk(Specified(n.val), f.file)

SplitLine(parts) ==
    IF Len(parts) # 2 THEN DirErr(MsgIllFormatted)
    ELSE NumberedParts(get_filename(parts[2]), parse_i32(parts[1]))

\* the branch `line.starts_with(|c| c.is_digit(10))`
Numbered(line) == SplitLine(splitn2(line))

\* a variant of the marker table with '+' and '!' exchanged
MarkerNumber_swapped(c) ==
    IF c = "-" THEN Unnumbered ELSE IF c = "!" THEN Default ELSE Hidden

\* the marker of a '-', '+' or '!' line
MarkerNumber(c) ==
    IF c = "-" THEN Unnumbered ELSE IF c = "+" THEN Default ELSE Hidden

\* a variant of the chain whose last branch passes the line over
DirectiveOf_lenient(line) ==
    IF line = <<>> \/ starts_with(line, {"#"}) THEN DirSkip
    ELSE IF starts_with(line, {"-", "+", "!"})
    THEN Marked(MarkerNumber(Head(line)), line)
    ELSE IF starts_with(line, Digits) THEN Numbered(line)
    ELSE DirSkip

\* the if / else-if chain over the trimmed line
DirectiveOf(line) ==
    IF line = <<>> \/ starts_with(line, {"#"}) THEN DirSkip
    ELSE IF starts_with(line, {"-", "+", "!"})
    THEN Marked(MarkerNumber(Head(line)), line)
    ELSE IF starts_with(line, Digits) THEN Numbered(line)
    ELSE DirErr(MsgInvalidDef)

\* the body of `while let Some(line) = lines.next()`, up to the add_chapter call
Directive(raw) == DirectiveOf(trim(raw))

(***************************************************************************)
(* The Option Store (bookoptions.rs): the recognized keys, their types     *)
(* and defaults, and set_yaml.  A value is a sequence of symbols; a        *)
(* boolean option holds <<"true">> or <<"false">>; a path option that was  *)
(* never set holds Unset.                                                  *)
(***************************************************************************)
Unset == <<"<unset>">>
True == <<"true">>
False == <<"false">>

StrKeys == {"title", "author", "lang"}
BoolKeys == {"input.clean", "input.yaml_blocks", "proofread",
             "proofread.languagetool"}
PathKeys == {"resources.base_path", "resources.base_path.images",
             "resources.base_path.links"}

\* the formats render_all looks at, in the order of its `if` statements
RenderAllFormats ==
    <<"pdf", "epub", "html_dir", "odt", "html", "tex",
      "proofread.pdf", "proofread.html_dir", "proofread.html">>

ProofFormats == {"proofread.pdf", "proofread.html_dir", "proofread.html"}

\* the option output.<format>
OutputKey(format) == "output." \o format

RenderAllSet == {RenderAllFormats[i] : i \in 1..Len(RenderAllFormats)}

OutputKeys == {OutputKey(format) : format \in RenderAllSet}

OptionKeys == StrKeys \cup BoolKeys \cup PathKeys \cup OutputKeys

\* the template options, each named after the template it replaces
TemplateKeys ==
    {"epub.css", "epub.chapter.xhtml", "html.css", "html.css.colours",
     "html.css.print", "html_single.html", "html_single.js", "html.js",
     "html_dir.index.html", "html_dir.chapter.html", "html.highlight.js",
     "html.highlight.css", "tex.template"}

IntKeys == {"epub.version"}

DefaultOptions ==
    [k \in OptionKeys |->
        CASE k = "lang" -> <<"en">>
          [] k = "input.clean" -> True
          [] k = "input.yaml_blocks" -> False
          [] k = "proofread" -> False
          [] k = "proofread.languagetool" -> False
          [] k \in PathKeys \cup OutputKeys -> Unset
          [] OTHER -> <<>>]

\* the store with the template options and epub.version, which the model
\* carries only where templates are asked for
TemplateOptions ==
    [k \in OptionKeys \cup TemplateKeys \cup IntKeys |->
        IF k \in OptionKeys THEN DefaultOptions[k]
        ELSE IF k \in IntKeys THEN <<"2">>
        ELSE Unset]

\* BookOptions::get and get_path: Ok(value) for a recognized key that holds one
get(opts, key) ==
    IF key \in DOMAIN opts /\ opts[key] # Unset
    THEN [ok |-> TRUE, val |-> opts[key]]
    ELSE [ok |-> FALSE, val |-> Unset]

get_path(opts, key) ==
    IF key \in PathKeys \cup OutputKeys \cup TemplateKeys
    THEN get(opts, key)
    ELSE [ok |-> FALSE, val |-> Unset]

\* BookOptions::get_i32: Ok(value) for an integer option
get_i32(opts, key) ==
    IF key \in IntKeys /\ key \in DOMAIN opts
    THEN [ok |-> TRUE, val |-> digits_value(opts[key])]
    ELSE [ok |-> FALSE, val |-> 0]

get_bool(opts, key) == opts[key] = True

\* fn is_proofread
is_proofread(opts) ==
    /\ get_bool(opts, "proofread")
    /\ \/ get(opts, "output.proofread.html").ok
       \/ get(opts, "output.proofread.html_dir").ok
       \/ get(opts, "output.proofread.pdf").ok

\* a YAML mapping entry: key (a sequence of symbols), kind of value, its text
\* kind: "str" | "bool" | "null" | "block" | "nested"
KeyName(key) == IF Len(key) = 1 THEN key[1] ELSE "?"

TypeOk(k, e) ==
    IF k \in BoolKeys THEN e.kind = "bool"
    ELSE IF k \in IntKeys THEN e.kind = "int"
    ELSE e.kind \in {"str", "block"}

MsgUnknownKey == "unrecognized key"
MsgWrongType == "wrong type for key"

\* BookOptions::set_yaml: unknown key or wrong type is a BookOption error
set_yaml(opts, e, line) ==
    LET k == KeyName(e.key) IN
    IF k \notin DOMAIN opts
    THEN [res |-> Err("BookOption", MsgUnknownKey, line), options |-> opts]
    ELSE IF ~TypeOk(k, e)
    THEN [res |-> Err("BookOption", MsgWrongType, line), options |-> opts]
    ELSE [res |-> Ok, options |-> [opts EXCEPT ![k] = e.text]]

(***************************************************************************)
(* YamlLoader::load_from_str on the block-style subset the model's text    *)
(* uses: blank lines, '#' comments, `key: value` entries, `key:` followed  *)
(* by indented lines, `key: >` / `key: |` block scalars, plain scalars and *)
(* `- item` sequences.                                                     *)
(***************************************************************************)
RECURSIVE indent(_)
indent(l) == IF l # <<>> /\ Head(l) = " " THEN 1 + indent(Tail(l)) ELSE 0

IsBlank(l) == trim(l) = <<>>

IsComment(l) == starts_with(trim(l), {"#"})

IsSeqEntry(l) ==
    LET b == trim(l) IN b # <<>> /\ Head(b) = "-" /\ (Len(b) = 1 \/ b[2] = " ")

\* positions of a ':' that ends a key: followed by a space or by the line's end
KeyEnds(b) ==
    {i \in 2..Len(b) : b[i] = ":" /\ (i = Len(b) \/ b[i + 1] = " ")}

IsMapEntry(l) == ~IsSeqEntry(l) /\ ~IsComment(l) /\ KeyEnds(trim(l)) # {}

ValueKind(v) ==
    IF v = <<>> THEN "null"
    ELSE IF v \in {<<">">>, <<"|">>} THEN "block"
    ELSE IF v \in {True, False} THEN "bool"
    ELSE "str"

Entry(l) ==
    LET b == trim(l)
        i == CHOOSE k \in KeyEnds(b) : \A j \in KeyEnds(b) : k <= j
        v == trim(SubSeq(b, i + 1, Len(b)))
    IN [key  |-> trim(SubSeq(b, 1, i - 1)),
        kind |-> ValueKind(v),
        text |-> IF ValueKind(v) = "block" THEN <<>> ELSE v]

\* an indented line continues the value of the entry above it: a `key:` alone
\* takes the node that follows, a block scalar its text, a plain scalar folds
ExtendKind(e, structured) ==
    IF e.kind = "null" THEN (IF structured THEN "nested" ELSE "str")
    ELSE IF e.kind = "bool" THEN "str"
    ELSE e.kind

Extend(e, l) ==
    [key  |-> e.key,
     kind |-> ExtendKind(e, IsMapEntry(l) \/ IsSeqEntry(l)),
     text |-> IF e.text = <<>> THEN trim(l) ELSE e.text \o <<" ">> \o trim(l)]

YamlErr == [st |-> "err", ndocs |-> 0, hash |-> FALSE, entries |-> <<>>]
YamlDocs(n, h, es) == [st |-> "ok", ndocs |-> n, hash |-> h, entries |-> es]

RECURSIVE map_lines(_, _, _, _)
map_lines(ls, i, n0, acc) ==
    IF i > Len(ls) THEN YamlDocs(1, TRUE, acc)
    ELSE LET l == ls[i] IN
         IF IsBlank(l) \/ IsComment(l) THEN map_lines(ls, i + 1, n0, acc)
         ELSE IF indent(l) = n0
         THEN IF IsMapEntry(l)
              THEN map_lines(ls, i + 1, n0, Append(acc, Entry(l)))
              ELSE YamlErr
         ELSE IF indent(l) < n0 THEN YamlErr
         ELSE LET last == acc[Len(acc)] IN
              IF last.kind \in {"str", "bool"} /\ IsMapEntry(l) THEN YamlErr
              ELSE map_lines(ls, i + 1, n0,
                             [acc EXCEPT ![Len(acc)] = Extend(last, l)])

ContentIdx(ls) == {i \in 1..Len(ls) : ~IsBlank(ls[i]) /\ ~IsComment(ls[i])}

YamlLoad(ls) ==
    LET C == ContentIdx(ls) IN
    IF C = {} THEN YamlDocs(0, FALSE, <<>>)
    ELSE LET f == CHOOSE i \in C : \A j \in C : i <= j IN
         IF IsMapEntry(ls[f]) THEN map_lines(ls, f, indent(ls[f]), <<>>)
         ELSE IF \E j \in C : j > f /\ IsMapEntry(ls[j]) THEN YamlErr
         ELSE YamlDocs(1, FALSE, <<>>)

(***************************************************************************)
(* set_options_from_yaml                                                   *)
(***************************************************************************)
\* a variant of the loop that drops the `?`: a failing key is passed over
RECURSIVE set_entries_lenient(_, _, _, _)
set_entries_lenient(opts, es, i, line) ==
    IF i > Len(es) THEN [res |-> Ok, options |-> opts]
    ELSE set_entries_lenient(set_yaml(opts, es[i], line).options, es, i + 1, line)

\* `for (key, value) in hash.into_iter() { self.options.set_yaml(key, value)?; }`
RECURSIVE set_entries(_, _, _, _)
set_entries(opts, es, i, line) ==
    IF i > Len(es) THEN [res |-> Ok, options |-> opts]
    ELSE LET r == set_yaml(opts, es[i], line) IN
         IF r.res.st # "ok" THEN r
         ELSE set_entries(r.options, es, i + 1, line)

\* a variant that takes a buffer holding no document for an empty mapping
set_options_from_yaml_empty(opts, ls, line) ==
    LET y == YamlLoad(ls) IN
    IF y.st = "err"
    THEN [res |-> Err("ConfigParser", MsgNotYaml, line), options |-> opts]
    ELSE IF y.ndocs = 0 THEN [res |-> Ok, options |-> opts]
    ELSE IF y.ndocs = 1 /\ y.hash THEN set_entries(opts, y.entries, 1, line)
    ELSE [res |-> Err("ConfigParser", MsgNotHash, line), options |-> opts]

\* fn set_options_from_yaml
set_options_from_yaml(opts, ls, line) ==
    LET y == YamlLoad(ls) IN
    IF y.st = "err"
    THEN [res |-> Err("ConfigParser", MsgNotYaml, line), options |-> opts]
    ELSE IF y.ndocs = 1 /\ y.hash THEN set_entries(opts, y.entries, 1, line)
    ELSE [res |-> Err("ConfigParser", MsgNotHash, line), options |-> opts]

(***************************************************************************)
(* Derived state: update_cleaner                                           *)
(***************************************************************************)
FrenchLangs == {"fr", "FR", "Fr", "fr_FR"}

\* fn update_cleaner: lang.to_lowercase().starts_with("fr")
update_cleaner(opts) ==
    IF opts["input.clean"] = True
    THEN IF opts["lang"] # <<>> /\ opts["lang"][1] \in FrenchLangs
         THEN "French" ELSE "Default"
    ELSE "Off"

\* the options ask for the grammar checker
HookActive(opts) == get_bool(opts, "proofread.languagetool") /\ is_proofread(opts)

\* fn init_checker, in a build with the feature "proofread" and with the
\* service answering: GrammarChecker::new returns Ok.  There is no else
\* branch: a handle made earlier stays.
init_checker(opts, chk) == IF HookActive(opts) THEN "Some" ELSE chk

(***************************************************************************)
(* The files below the book root, and the external parser                  *)
(***************************************************************************)
Dashes == <<"-", "-", "-">>
Dots == <<".", ".", ".">>

BlockAuthorZ == <<Dashes, <<"author", ":", " ", "Z">>, Dashes>>

BlockNotYaml == <<Dashes, <<"x">>, <<"title", ":", " ", "X">>, Dashes>>

BlockToolOff == <<Dashes, <<"proofread.languagetool", ":", " ", "false">>, Dashes>>

BlockProofOff == <<Dashes, <<"proofread", ":", " ", "false">>, Dashes>>

ExistingFiles ==
    {<<"a">>, <<"b">>, <<"a", "b">>, <<"p">>, <<"u">>, <<"g">>, <<"h">>, <<"k">>,
     <<"d", "/", "a">>, <<"d", "/", "e", "/", "a">>, <<"..", "/", "a">>}

FileContent(file) ==
    CASE file = <<"a">> -> << <<"x">> >>
      [] file = <<"b">> -> BlockAuthorZ \o << <<>>, <<"y">> >>
      [] file = <<"p">> -> << <<"<unparsable>">> >>
      [] file = <<"u">> -> BlockNotYaml \o << <<>>, <<"y">> >>
      [] file = <<"g">> -> BlockAuthorZ \o << <<>>, <<"y">> >>
      [] file = <<"h">> -> BlockToolOff \o << <<>>, <<"y">> >>
      [] file = <<"k">> -> BlockProofOff \o << <<>>, <<"y">> >>
      [] OTHER -> << <<"x">>, <<"y">> >>

\* Parser::parse fails on markup it cannot read
ParserFails(content) ==
    \E i \in 1..Len(content) : content[i] = <<"<unparsable>">>

RECURSIVE last_slash(_)
last_slash(file) ==
    IF file = <<>> THEN 0
    ELSE IF file[Len(file)] = "/" THEN Len(file)
    ELSE last_slash(SubSeq(file, 1, Len(file) - 1))

\* the chapters on which GrammarChecker::check_chapter returns an error
CheckerFails(file) == file = <<"g">>

\* Path::new(file).parent()
Parent(file) ==
    IF last_slash(file) = 0 THEN <<>> ELSE SubSeq(file, 1, last_slash(file) - 1)

\* a variant of the link offset that reads the images option
LinkOffset_images(opts, file) ==
    IF opts["resources.base_path"] # Unset THEN opts["resources.base_path"]
    ELSE IF opts["resources.base_path.images"] # Unset
    THEN opts["resources.base_path.images"]
    ELSE Parent(file)

\* the offsets add_chapter hands to ResourceHandler::add_offset
LinkOffset(opts, file) ==
    IF opts["resources.base_path"] # Unset THEN opts["resources.base_path"]
    ELSE IF opts["resources.base_path.links"] # Unset
    THEN opts["resources.base_path.links"]
    ELSE Parent(file)

ImageOffset(opts, file) ==
    IF opts["resources.base_path"] # Unset THEN opts["resources.base_path"]
    ELSE IF opts["resources.base_path.images"] # Unset
    THEN opts["resources.base_path.images"]
    ELSE Parent(file)

Tokens(content, link, image) ==
    [text |-> content, link_offset |-> link, image_offset |-> image,
     checked |-> FALSE]

(***************************************************************************)
(* parse_yaml: the embedded-block scanner.  A text is its lines joined by  *)
(* "\n", so every line but the last is followed by a newline.              *)
(***************************************************************************)
\* content.starts_with("---\n") || content.contains("\n---\n")
MayContainYaml(ls) == \E i \in 1..(Len(ls) - 1) : ls[i] = Dashes

\* index of the line closing the block whose first line is ls[i]; 0 if none
RECURSIVE block_end(_, _)
block_end(ls, i) ==
    IF i > Len(ls) THEN 0
    ELSE IF ls[i] = Dashes \/ ls[i] = Dots THEN i
    ELSE block_end(ls, i + 1)

\* the inner `for (key, value) in hash`: a failing key is logged and skipped
RECURSIVE set_block_entries(_, _, _)
set_block_entries(opts, es, i) ==
    IF i > Len(es) THEN opts
    ELSE set_block_entries(set_yaml(opts, es[i], 0).options, es, i + 1)

\* a variant of the test that forgets the input.yaml_blocks option
BlockIsApplied_always(opts, y) == y.ndocs = 1 /\ y.hash

\* docs.len() == 1 && docs[0].as_hash().is_some() && get_bool("input.yaml_blocks") == Ok(true)
BlockIsApplied(opts, y) ==
    y.ndocs = 1 /\ y.hash /\ opts["input.yaml_blocks"] = True

\* a variant of the splice that keeps every closed block in the content
BlockIsKept_all(y) == TRUE

\* `if !valid_block`: only a block that is not YAML goes back into the content
BlockIsKept(y) == y.st = "err"

\* the scanner's state: [ls, i, previous_empty, options, new_content, log]
BlockLog(i, j, closed, app, es) ==
    [first |-> i, last |-> j, closed |-> closed, applied |-> app, entries |-> es]

\* the lines ran out before the block closed: valid_block stays false
BlockUnclosed(s) ==
    [s EXCEPT !.i = Len(s.ls) + 1,
              !.previous_empty = FALSE,
              !.new_content = @ \o SubSeq(s.ls, s.i + 1, Len(s.ls)) \o << <<>> >>,
              !.log = Append(@, BlockLog(s.i, Len(s.ls), FALSE, FALSE, <<>>))]

\* the block ls[i+1 .. j-1] closed by line j, y what YamlLoader made of it
BlockClosed(s, j, yaml_block, y, app) ==
    [s EXCEPT !.i = j + 1,
              !.previous_empty = FALSE,
              !.options = IF app THEN set_block_entries(@, y.entries, 1) ELSE @,
              !.new_content = IF BlockIsKept(y)
                              THEN @ \o yaml_block \o << <<>> >> ELSE @,
              !.log = Append(@, BlockLog(s.i, j, TRUE, app,
                                         IF app THEN y.entries ELSE <<>>))]

BlockAt(s, j, yaml_block, y) ==
    BlockClosed(s, j, yaml_block, y, y.st = "ok" /\ BlockIsApplied(s.options, y))

BlockFrom(s, j) ==
    IF j = 0 THEN BlockUnclosed(s)
    ELSE BlockAt(s, j, SubSeq(s.ls, s.i + 1, j - 1),
                 YamlLoad(SubSeq(s.ls, s.i + 1, j - 1)))

PlainLine(s, line) ==
    [s EXCEPT !.i = @ + 1,
              !.previous_empty = (line = <<>>),
              !.new_content = Append(@, line)]

\* a variant of the turn that opens a block at every `---` line
ScanLine_anywhere(s) ==
    IF s.ls[s.i] = Dashes
    THEN BlockFrom(s, block_end(s.ls, s.i + 1))
    ELSE PlainLine(s, s.ls[s.i])

\* one turn of `while let Some(line) = lines.next()`
ScanLine(s) ==
    IF s.ls[s.i] = Dashes /\ s.previous_empty
    THEN BlockFrom(s, block_end(s.ls, s.i + 1))
    ELSE PlainLine(s, s.ls[s.i])

RECURSIVE parse_yaml_lines(_)
parse_yaml_lines(s) ==
    IF s.i > Len(s.ls) THEN s ELSE parse_yaml_lines(ScanLine(s))

ScanStart(opts, ls) ==
    [ls |-> ls, i |-> 1, previous_empty |-> TRUE, options |-> opts,
     new_content |-> <<>>, log |-> <<>>]

ParsedYaml(r) ==
    [content |-> r.new_content, options |-> r.options,
     cleaner |-> update_cleaner(r.options), log |-> r.log, scanned |-> TRUE]

\* fn parse_yaml, with the cleaner it leaves behind
parse_yaml(opts, cl, ls) ==
    IF ~MayContainYaml(ls)
    THEN [content |-> ls, options |-> opts, cleaner |-> cl, log |-> <<>>,
          scanned |-> FALSE]
    ELSE ParsedYaml(parse_yaml_lines(ScanStart(opts, ls)))

(***************************************************************************)
(* Chapter ingestion on a book value b = [chapters, filenames, options,    *)
(* cleaner, handed, blocks, checker, res]                                  *)
(***************************************************************************)
BookValue(ch, fn, opts, cl, hd, bl, chk) ==
    [chapters |-> ch, filenames |-> fn, options |-> opts, cleaner |-> cl,
     handed |-> hd, blocks |-> bl, checker |-> chk, res |-> Ok]

\* what parse_yaml leaves in the book; a scan ends with init_checker()
AfterParseYaml(b, py) ==
    [b EXCEPT !.options = py.options, !.cleaner = py.cleaner,
              !.handed = <<py.content>>, !.blocks = py.log,
              !.checker = IF py.scanned THEN init_checker(py.options, @) ELSE @]

\* parser.parse(&s)?, add_offset, self.chapters.push((number, v))
ParseAndPush(b, number, content, link, image, line) ==
    IF ParserFails(content)
    THEN [b EXCEPT !.res = Err("Parser", "parse error", line)]
    ELSE [b EXCEPT !.chapters = Append(@, [number |-> number,
                                           tokens |-> Tokens(content, link, image)]),
                   !.res = Ok]

\* offset.starts_with(".."): the chapter lies above the book file; the code
\* logs a warning and goes on
IsAboveRoot(file) == Parent(file) # <<>> /\ Head(Parent(file)) = ".."

\* `if cfg!(feature = "proofread") && self.is_proofread()` and
\* `if let Some(ref checker) = self.checker`: the checker's verdict on
\* the tokens, which it annotates when it succeeds.  The build has the
\* feature; without it the tokens are pushed as when proofreading is off.
grammar_check(opts, chk, file, tokens) ==
    IF ~is_proofread(opts) \/ chk = "None" THEN [tokens |-> tokens, res |-> Ok]
    ELSE IF CheckerFails(file)
    THEN [tokens |-> tokens, res |-> Err("GrammarCheck", "grammar check", 0)]
    ELSE [tokens |-> [tokens EXCEPT !.checked = TRUE], res |-> Ok]

\* a variant in which an error of the grammar check is returned
PushChecked_fatal(b, number, g) ==
    IF g.res.st = "ok"
    THEN [b EXCEPT !.chapters = Append(@, [number |-> number, tokens |-> g.tokens]),
                   !.res = Ok]
    ELSE [b EXCEPT !.res = g.res]

\* `if let Err(err) = checker.check_chapter(&mut v) { logger.error }`, then
\* self.chapters.push((number, v))
PushChecked(b, number, g) ==
    [b EXCEPT !.chapters = Append(@, [number |-> number, tokens |-> g.tokens]),
              !.res = Ok]

\* parser.parse(&s)?, add_offset, the grammar check, the push
ParseCheckAndPush(b, number, file, line, content, opts) ==
    IF ParserFails(content)
    THEN [b EXCEPT !.res = Err("Parser", "parse error", line)]
    ELSE PushChecked(b, number,
                     grammar_check(opts, b.checker, file,
                                   Tokens(content, LinkOffset(opts, file),
                                          ImageOffset(opts, file))))

AddChapterParsed(b, number, file, line, py) ==
    ParseCheckAndPush(AfterParseYaml(b, py), number, file, line, py.content,
                      py.options)

\* a variant of add_chapter that forgets self.filenames.push
add_chapter_nofilename(b, number, file, line) ==
    IF file \notin ExistingFiles
    THEN [b EXCEPT !.res = Err("FileNotFound", "book chapter", line)]
    ELSE AddChapterParsed(b, number, file, line,
                          parse_yaml(b.options, b.cleaner, FileContent(file)))

\* fn add_chapter: the filename is pushed before the file is opened
add_chapter(b, number, file, line) ==
    IF file \notin ExistingFiles
    THEN [b EXCEPT !.filenames = Append(@, file),
                   !.res = Err("FileNotFound", "book chapter", line)]
    ELSE AddChapterParsed([b EXCEPT !.filenames = Append(@, file)], number, file,
                          line, parse_yaml(b.options, b.cleaner, FileContent(file)))

PushEmptyFilename(b) ==
    IF b.res.st = "ok" THEN [b EXCEPT !.filenames = Append(@, <<>>)] ELSE b

FromSourceParsed(b, number, py) ==
    PushEmptyFilename(ParseAndPush(AfterParseYaml(b, py), number, py.content,
                                   <<>>, <<>>, 0))

\* fn add_chapter_from_source: no offsets, and the (empty) filename comes last
add_chapter_from_source(b, number, content) ==
    FromSourceParsed(b, number, parse_yaml(b.options, b.cleaner, content))

\* a variant of read_markdown_config that leaves input.yaml_blocks alone
read_markdown_config_noforce(b, content) ==
    add_chapter_from_source(b, Hidden, content)

\* fn read_markdown_config: options.set("input.yaml_blocks", "true"), then
\* add_chapter_from_source(Number::Hidden, source)
read_markdown_config(b, content) ==
    add_chapter_from_source(
        [b EXCEPT !.options =
            set_yaml(@, [key |-> <<"input.yaml_blocks">>, kind |-> "bool",
                         text |-> True], 0).options],
        Hidden, content)

DirectiveResult(b, d, line) ==
    IF d.st = "skip" THEN [b EXCEPT !.res = Ok]
    ELSE IF d.st = "panic" THEN [b EXCEPT !.res = Panic]
    ELSE IF d.st = "err" THEN [b EXCEPT !.res = Err("ConfigParser", d.msg, line)]
    ELSE add_chapter(b, d.number, d.file, line)

\* one turn of `while let Some(line) = lines.next()`: the directive, then add_chapter
ChapterLoopBody(b, raw, line) == DirectiveResult(b, Directive(raw), line)

Book == BookValue(chapters, filenames, options, cleaner, handed, blocks, checker)

SetBook(b) ==
    /\ chapters' = b.chapters
    /\ filenames' = b.filenames
    /\ options' = b.options
    /\ cleaner' = b.cleaner
    /\ handed' = b.handed
    /\ blocks' = b.blocks
    /\ checker' = b.checker

(***************************************************************************)
(* The inputs the model draws from                                         *)
(***************************************************************************)
LinePool ==
    { <<"title", ":", " ", "X">>,
      <<"author", ":", " ", "Y">>,
      <<"nokey", ":", " ", "Z">>,
      <<"title", ":", " ", ">">>,
      <<"lang", ":">>,
      <<" ", " ", "x">>,
      <<" ", " ", "author", ":", " ", "W">>,
      <<>>,
      <<"#", " ", "c">>,
      <<"-", "a">>,
      <<"-", " ", "a">>,
      <<"-", "m">>,
      <<"+", "a">>,
      <<"+", " ", "b">>,
      <<"!", "a">>,
      <<"!", " ", "b">>,
      <<"3", ".", " ", "a">>,
      <<"3", ".", "a", "b">>,
      <<"3", ":", " ", "a">>,
      <<"-", " ", "a", " ", "b">> }

Inputs == UNION {[1..n -> LinePool] : n \in 0..MaxLines}

DirAlphabet == {"-", "+", "!", "#", "3", ".", ":", " ", "a"}

DirLines == UNION {[1..n -> DirAlphabet] : n \in 1..MaxLineLen}

Segments ==
    { BlockAuthorZ,
      <<Dashes, <<"author", ":", " ", "Y">>, <<"title", ":", " ", "X">>, Dots>>,
      <<Dashes, <<"input.yaml_blocks", ":", " ", "false">>, Dashes>>,
      <<Dashes, <<"nokey", ":", " ", "Z">>, <<"input.clean", ":", " ", "X">>, Dashes>>,
      <<Dashes, <<"-", " ", "i">>, Dashes>>,
      <<Dashes, <<"x">>, <<"title", ":", " ", "X">>, Dashes>>,
      <<Dashes, <<"lang", ":", " ", "fr">>>>,
      << <<>> >>,
      << <<"x">> >> }

RECURSIVE Flatten(_)
Flatten(ss) == IF ss = <<>> THEN <<>> ELSE Head(ss) \o Flatten(Tail(ss))

Contents == {Flatten(ss) : ss \in UNION {[1..n -> Segments] : n \in 0..MaxSegments}}

ApiFiles == {<<"a">>, <<"b">>, <<"m">>}

ApiOptions ==
    { <<"input.yaml_blocks", True>>, <<"author", <<"Q">> >>, <<"nokey", <<"Z">> >> }

(***************************************************************************)
(* The format registry and the render entry points.  A renderer is named   *)
(* by its type; what a renderer returns is the caller's input `out`.       *)
(***************************************************************************)
BuiltinFormats ==
    {"html", "proofread.html", "html_dir", "proofread.html_dir", "tex",
     "proofread.tex", "pdf", "proofread.pdf", "epub", "odt"}

BuiltinRenderer(format) ==
    CASE format = "html" -> "HtmlSingle"
      [] format = "proofread.html" -> "ProofHtmlSingle"
      [] format = "html_dir" -> "HtmlDir"
      [] format = "proofread.html_dir" -> "ProofHtmlDir"
      [] format = "tex" -> "Latex"
      [] format = "proofread.tex" -> "ProofLatex"
      [] format = "pdf" -> "Pdf"
      [] format = "proofread.pdf" -> "ProofPdf"
      [] format = "epub" -> "Epub"
      [] format = "odt" -> "Odt"

BuiltinDescription(format) ==
    CASE format = "html" -> "HTML (standalone page)"
      [] format = "proofread.html" -> "HTML (standalone page/proofreading)"
      [] format = "html_dir" -> "HTML (multiple pages)"
      [] format = "proofread.html_dir" -> "HTML (multiple pages/proofreading)"
      [] format = "tex" -> "LaTeX"
      [] format = "proofread.tex" -> "LaTeX (proofreading)"
      [] format = "pdf" -> "PDF"
      [] format = "proofread.pdf" -> "PDF (proofreading)"
      [] format = "epub" -> "EPUB"
      [] format = "odt" -> "ODT"

\* a variant that keeps the entry a key already has
add_format_keep(fmts, format, description, renderer) ==
    [k \in DOMAIN fmts \cup {format} |->
        IF k \in DOMAIN fmts THEN fmts[k]
        ELSE [description |-> description, renderer |-> renderer]]

\* fn add_format: HashMap::insert
add_format(fmts, format, description, renderer) ==
    [k \in DOMAIN fmts \cup {format} |->
        IF k = format THEN [description |-> description, renderer |-> renderer]
        ELSE fmts[k]]

\* the registry Book::new() builds
NewFormats ==
    [format \in BuiltinFormats |->
        [description |-> BuiltinDescription(format),
         renderer |-> BuiltinRenderer(format)]]

MsgUnknownFormat == "unknown format"

\* the writer render_format_to is handed by the caller
Writer == <<"<writer>">>

\* one call of a renderer: which one, through which method, where to, and
\* what it returned
Invocation(renderer, method, to, out) ==
    [renderer |-> renderer, method |-> method, to |-> to, ret |-> out]

\* a call of the public API: the operation, its arguments, what it returned
Call(op, format, description, renderer, to, ret) ==
    [op |-> op, format |-> format, description |-> description,
     renderer |-> renderer, to |-> to, ret |-> ret]

NoCall == Call("none", "", "", "", <<>>, NotCalled)

\* a variant that drops the renderer's error
render_format_to_lossy(fmts, format, f, out) ==
    IF format \in DOMAIN fmts
    THEN [invoked |-> <<Invocation(fmts[format].renderer, "render", f, out)>>,
          ret |-> Ok]
    ELSE [invoked |-> <<>>, ret |-> Err("Default", MsgUnknownFormat, 0)]

\* fn render_format_to
render_format_to(fmts, format, f, out) ==
    IF format \in DOMAIN fmts
    THEN [invoked |-> <<Invocation(fmts[format].renderer, "render", f, out)>>,
          ret |-> out]
    ELSE [invoked |-> <<>>, ret |-> Err("Default", MsgUnknownFormat, 0)]

\* fn render_format_to_file
render_format_to_file(fmts, format, path, out) ==
    IF format \in DOMAIN fmts
    THEN [invoked |-> <<Invocation(fmts[format].renderer, "render_to_file",
                                   path, out)>>,
          ret |-> out]
    ELSE [invoked |-> <<>>, ret |-> Err("Default", MsgUnknownFormat, 0)]

\* a variant that renders whether or not output.<format> is set
render_format_unconditional(fmts, opts, format, out) ==
    LET path == get_path(opts, OutputKey(format))
        r == render_format_to_file(fmts, format, path.val, out) IN
    [invoked |-> r.invoked,
     logged |-> IF r.ret.st = "err" THEN {format} ELSE {},
     ret |-> Ok]

\* fn render_format: an error of render_format_to_file goes to the logger
render_format(fmts, opts, format, out) ==
    LET path == get_path(opts, OutputKey(format)) IN
    IF path.ok
    THEN LET r == render_format_to_file(fmts, format, path.val, out) IN
         [invoked |-> r.invoked,
          logged |-> IF r.ret.st = "err" THEN {format} ELSE {},
          ret |-> Ok]
    ELSE [invoked |-> <<>>, logged |-> {}, ret |-> Ok]

\* a variant of the tests of render_all that forgets is_proofread
spawns_all(opts, format) == get(opts, OutputKey(format)).ok

\* fn render_all: the test that guards the spawn of the thread of a format
spawns(opts, format) ==
    CASE format \in {"pdf", "epub", "html_dir", "odt"} ->
            get(opts, OutputKey(format)).ok
      [] format \in {"html", "tex"} ->
            get_path(opts, OutputKey(format)).ok
      [] format \in {"proofread.pdf", "proofread.html_dir"} ->
            is_proofread(opts) /\ get(opts, OutputKey(format)).ok
      [] format = "proofread.html" ->
            is_proofread(opts) /\ get_path(opts, OutputKey(format)).ok

\* a variant in which a logged failure keeps the threads not yet running
\* from running
Runnable_failfast(ts, lg, format) == ts[format] = "spawned" /\ lg = {}

\* scope.spawn: the thread of a format runs once spawned, whatever the
\* other threads have logged
Runnable(ts, lg, format) == ts[format] = "spawned"

\* a variant of the scope that does not wait for its threads
Joined_nowait(ts) == TRUE

\* crossbeam::scope returns once every thread spawned in it has finished
Joined(ts) == \A format \in DOMAIN ts : ts[format] \in {"none", "done"}

(***************************************************************************)
(* The state after Book::new()                                             *)
(***************************************************************************)
NewBookWith(opts) ==
    /\ chapters = <<>>
    /\ filenames = <<>>
    /\ options = opts
    /\ cleaner = "Off"
    /\ source_line = 0
    /\ chapter_template = "None"
    /\ pc = "idle"
    /\ pos = 0
    /\ yaml = <<>>
    /\ ystart = 1
    /\ flushes = <<>>
    /\ result = NotCalled
    /\ handed = <<>>
    /\ blocks = <<>>
    /\ formats = NewFormats
    /\ call = NoCall
    /\ invoked = <<>>
    /\ logged = {}
    /\ warned = FALSE
    /\ tasks = [format \in RenderAllSet |-> "none"]
    /\ rpc = "idle"
    /\ rindex = 0
    /\ handles = <<>>
    /\ compiled = 0
    /\ checker = "None"
    /\ fetched = NotFetched

NewBook == NewBookWith(DefaultOptions)

Init ==
    /\ NewBook
    /\ input = <<>>
    /\ dline = <<>>
    /\ dres = DirNone
    /\ src = <<>>

(***************************************************************************)
(* read_config                                                             *)
(***************************************************************************)
DirectiveStart == {"-", "+", "!"} \cup Digits

BlockIndicators == {">", "|", ":", "-"}

\* a variant of the lookahead that always lets the buffer be flushed
IsNextLineOk_always(l) == TRUE

\* the lookahead: YamlLoader::load_from_str(next_line) is a non-empty list
\* of documents whose first is a hash
IsNextLineOk(l) ==
    LET doc == YamlLoad(<<l>>) IN doc.st = "ok" /\ doc.ndocs > 0 /\ doc.hash

FlushEntry(first, last, res, final) ==
    [first |-> first, last |-> last,
     st |-> IF res.st = "ok" THEN "ok" ELSE res.kind, final |-> final]

ReadConfigStart ==
    /\ pc = "idle"
    /\ result.st = "none"
    /\ \E inp \in Inputs : input' = inp
    /\ pc' = "front"
    /\ UNCHANGED <<bookVars, pos, yaml, ystart, flushes, result, dirVars,
                   src, handed, blocks, renderVars, compiled, checker, fetched>>

\* the two `break`s at the top of the loop
FrontMatterBreak ==
    /\ pc = "front"
    /\ \/ pos = Len(input)
       \/ pos < Len(input) /\ starts_with(input[pos + 1], DirectiveStart)
    /\ pc' = "flush"
    /\ UNCHANGED <<bookVars, input, pos, yaml, ystart, flushes, result, dirVars,
                   src, handed, blocks, renderVars, compiled, checker, fetched>>

\* what the scan does with the line it just pushed onto `yaml`
\* "continue": keep accumulating; "break": no next line; "flush": try the buffer
ScanDecision(line, has_next, next_line) ==
    IF ends_with(trim(line), BlockIndicators) THEN "continue"
    ELSE IF ~has_next THEN "break"
    ELSE IF ~IsNextLineOk(next_line) THEN "continue"
    ELSE "flush"

\* a variant of the match that keeps the buffer after a successful flush
SpeculativeFlush_keep(y1, r) ==
    /\ flushes' = Append(flushes, FlushEntry(ystart, pos + 1, r.res, FALSE))
    /\ options' = r.options
    /\ yaml' = y1
    /\ ystart' = ystart
    /\ pc' = IF r.res.st = "err" /\ r.res.kind = "BookOption" THEN "returned" ELSE pc
    /\ result' = IF r.res.st = "err" /\ r.res.kind = "BookOption" THEN r.res
                 ELSE result

\* let result = self.set_options_from_yaml(&yaml); match result { ... }
SpeculativeFlush(y1, r) ==
    /\ flushes' = Append(flushes, FlushEntry(ystart, pos + 1, r.res, FALSE))
    /\ options' = r.options
    /\ yaml' = IF r.res.st = "ok" THEN <<>> ELSE y1
    /\ ystart' = IF r.res.st = "ok" THEN pos + 2 ELSE ystart
    /\ pc' = IF r.res.st = "err" /\ r.res.kind = "BookOption" THEN "returned" ELSE pc
    /\ result' = IF r.res.st = "err" /\ r.res.kind = "BookOption" THEN r.res
                 ELSE result

Accumulate(y1, decision) ==
    /\ yaml' = y1
    /\ pc' = IF decision = "break" THEN "flush" ELSE pc
    /\ UNCHANGED <<options, ystart, flushes, result>>

ScanLineOf(y1, decision) ==
    IF decision = "flush"
    THEN SpeculativeFlush(y1, set_options_from_yaml(options, y1, pos + 1))
    ELSE Accumulate(y1, decision)

\* one turn of the loop that consumes a front-matter line
FrontMatterLine ==
    /\ pc = "front"
    /\ pos < Len(input)
    /\ ~starts_with(input[pos + 1], DirectiveStart)
    /\ pos' = pos + 1
    /\ source_line' = pos + 1
    /\ ScanLineOf(Append(yaml, input[pos + 1]),
                  ScanDecision(input[pos + 1], pos + 1 < Len(input),
                               IF pos + 1 < Len(input) THEN input[pos + 2] ELSE <<>>))
    /\ UNCHANGED <<chapters, filenames, cleaner, chapter_template, input, dirVars,
                   src, handed, blocks, renderVars, compiled, checker, fetched>>

\* self.set_options_from_yaml(&yaml)?; update_cleaner(); init_checker()
FinalFlushOf(r) ==
    /\ flushes' = Append(flushes, FlushEntry(ystart, pos, r.res, TRUE))
    /\ options' = r.options
    /\ cleaner' = IF r.res.st = "ok" THEN update_cleaner(r.options) ELSE cleaner
    /\ checker' = IF r.res.st = "ok" THEN init_checker(r.options, checker) ELSE checker
    /\ pc' = IF r.res.st = "ok" THEN "chapters" ELSE "returned"
    /\ result' = IF r.res.st = "ok" THEN result ELSE r.res

FinalFlush ==
    /\ pc = "flush"
    /\ FinalFlushOf(set_options_from_yaml(options, yaml, source_line))
    /\ UNCHANGED <<chapters, filenames, source_line, chapter_template, input, pos,
                   yaml, ystart, dirVars, src, handed, blocks, renderVars, compiled, fetched>>

\* one turn of the chapter loop
ChapterLineOf(b) ==
    /\ SetBook(b)
    /\ pc' = IF b.res.st = "ok" THEN pc ELSE "returned"
    /\ result' = IF b.res.st = "ok" THEN result ELSE b.res

ChapterLine ==
    /\ pc = "chapters"
    /\ pos < Len(input)
    /\ ChapterLineOf(ChapterLoopBody(Book, input[pos + 1], pos + 1))
    /\ pos' = pos + 1
    /\ source_line' = pos + 1
    /\ UNCHANGED <<chapter_template, input, yaml, ystart, flushes, dirVars, src, renderVars, compiled,
                   fetched>>

\* the lines ran out: source.unset_line(); set_chapter_template()?; Ok(self)
ChaptersDone ==
    /\ pc = "chapters"
    /\ pos = Len(input)
    /\ source_line' = 0
    /\ chapter_template' = "Some"
    /\ compiled' = compiled + 1
    /\ result' = Ok
    /\ pc' = "returned"
    /\ UNCHANGED <<chapters, filenames, options, cleaner, input, pos, yaml, ystart,
                   flushes, dirVars, src, handed, blocks, renderVars, checker, fetched>>

Next ==
    \/ ReadConfigStart
    \/ FrontMatterBreak
    \/ FrontMatterLine
    \/ FinalFlush
    \/ ChapterLine
    \/ ChaptersDone

Spec == Init /\ [][Next]_vars

(***************************************************************************)
(* The chapter loop's body applied to one line of a fresh book             *)
(***************************************************************************)
\* a call on the idle book returns b.res and leaves b
Returned(b) ==
    /\ SetBook(b)
    /\ result' = b.res

InitDirective ==
    /\ NewBook
    /\ input = <<>>
    /\ dline \in DirLines
    /\ dres = DirNone
    /\ src = <<>>

DirectiveStep ==
    /\ pc = "idle"
    /\ dres.st = "none"
    /\ Returned(ChapterLoopBody(Book, dline, 1))
    /\ dres' = Directive(dline)
    /\ pc' = "returned"
    /\ source_line' = 1
    /\ UNCHANGED <<chapter_template, input, pos, yaml, ystart, flushes, dline, src, renderVars, compiled,
                   fetched>>

NextDirective == DirectiveStep

SpecDirective == InitDirective /\ [][NextDirective]_vars

(***************************************************************************)
(* Direct use of the Book: set_options, add_chapter,                       *)
(* add_chapter_from_source                                                 *)
(***************************************************************************)
InitChapter ==
    /\ NewBook
    /\ input = <<>>
    /\ dline = <<>>
    /\ dres = DirNone
    /\ src \in Contents

\* a failing key is logged; update_cleaner() runs in every case
SetOptionsOf(r) ==
    /\ options' = r.options
    /\ cleaner' = update_cleaner(r.options)

\* fn set_options, called with one (key, value) pair
SetOptions ==
    /\ pc = "idle"
    /\ \E kv \in ApiOptions :
          SetOptionsOf(set_yaml(options, [key |-> <<kv[1]>>,
                                          kind |-> ValueKind(kv[2]),
                                          text |-> kv[2]], 0))
    /\ UNCHANGED <<chapters, filenames, source_line, chapter_template, scanVars,
                   result, dirVars, src, handed, blocks, renderVars, compiled, checker,
                   fetched>>

AddChapter ==
    /\ pc = "idle"
    /\ Len(filenames) < MaxChapters
    /\ \E file \in ApiFiles : Returned(add_chapter(Book, Default, file, 0))
    /\ UNCHANGED <<source_line, chapter_template, scanVars, dirVars, src, renderVars, compiled,
                   fetched>>

AddChapterFromSource ==
    /\ pc = "idle"
    /\ Len(filenames) < MaxChapters
    /\ \E number \in {Default, Hidden} :
          Returned(add_chapter_from_source(Book, number, src))
    /\ UNCHANGED <<source_line, chapter_template, scanVars, dirVars, src, renderVars, compiled,
                   fetched>>

NextChapter ==
    \/ SetOptions
    \/ AddChapter
    \/ AddChapterFromSource

SpecChapter == InitChapter /\ [][NextChapter]_vars

(***************************************************************************)
(* add_chapter under the resources.base_path options                       *)
(***************************************************************************)
PathValues == {<<"r">>, <<"s">>}

OffsetFiles == {<<"a">>, <<"d", "/", "a">>, <<"d", "/", "e", "/", "a">>, <<"m">>}

\* set_options with one of the three path options
SetPath ==
    /\ pc = "idle"
    /\ \E k \in PathKeys, v \in PathValues :
          SetOptionsOf(set_yaml(options, [key |-> <<k>>, kind |-> "str",
                                          text |-> v], 0))
    /\ UNCHANGED <<chapters, filenames, source_line, chapter_template, scanVars,
                   result, dirVars, src, handed, blocks, renderVars, compiled, checker,
                   fetched>>

AddChapterFile ==
    /\ pc = "idle"
    /\ Len(filenames) < MaxChapters
    /\ \E file \in OffsetFiles : Returned(add_chapter(Book, Default, file, 0))
    /\ UNCHANGED <<source_line, chapter_template, scanVars, dirVars, src, renderVars, compiled,
                   fetched>>

NextOffsets ==
    \/ SetPath
    \/ AddChapterFile

SpecOffsets == Init /\ [][NextOffsets]_vars

(***************************************************************************)
(* read_markdown_config on a book whose options were set through the API   *)
(***************************************************************************)
ReadMarkdownConfig ==
    /\ pc = "idle"
    /\ Len(filenames) < MaxChapters
    /\ Returned(read_markdown_config(Book, src))
    /\ UNCHANGED <<source_line, chapter_template, scanVars, dirVars, src, renderVars, compiled,
                   fetched>>

NextMarkdown ==
    \/ SetOptions
    \/ ReadMarkdownConfig

SpecMarkdown == InitChapter /\ [][NextMarkdown]_vars

(***************************************************************************)
(* The format registry and the render entry points, called one at a time   *)
(***************************************************************************)
MaxCalls == 2

\* the keys a caller registers a renderer under, and the renderers they bring
RegisterFormats == {"pdf", "foo"}

UserFormats ==
    {[description |-> "Some dummy implementation", renderer |-> "Dummy"],
     [description |-> "Another implementation", renderer |-> "Other"]}

\* the formats the calls ask for
CallFormats == {"pdf", "foo"}

\* what a renderer returns
RenderError == Err("Render", "could not render", 0)

RenderOutcomes == {Ok, RenderError}

renderFrame ==
    UNCHANGED <<chapters, filenames, source_line, chapter_template, scanVars,
                result, dirVars, src, handed, blocks, compiled, checker, fetched>>

threadFrame == UNCHANGED <<warned, tasks, rpc, rindex, handles>>

\* set_options with output.<format>
SetOutput ==
    /\ pc = "idle"
    /\ rpc = "idle"
    /\ \E format \in CallFormats, v \in PathValues :
          SetOptionsOf(set_yaml(options, [key |-> <<OutputKey(format)>>,
                                          kind |-> "str", text |-> v], 0))
    /\ renderFrame
    /\ UNCHANGED renderVars

AddFormat ==
    /\ pc = "idle"
    /\ rpc = "idle"
    /\ \E format \in RegisterFormats, e \in UserFormats :
          /\ formats' = add_format(formats, format, e.description, e.renderer)
          /\ call' = Call("add_format", format, e.description, e.renderer,
                          <<>>, Ok)
    /\ renderFrame
    /\ threadFrame
    /\ UNCHANGED <<options, cleaner, invoked, logged>>

RenderFormatTo ==
    /\ pc = "idle"
    /\ rpc = "idle"
    /\ Len(invoked) < MaxCalls
    /\ \E format \in CallFormats, out \in RenderOutcomes :
          LET r == render_format_to(formats, format, Writer, out) IN
          /\ invoked' = invoked \o r.invoked
          /\ call' = Call("render_format_to", format, "", "", Writer, r.ret)
    /\ renderFrame
    /\ threadFrame
    /\ UNCHANGED <<options, cleaner, formats, logged>>

RenderFormatToFile ==
    /\ pc = "idle"
    /\ rpc = "idle"
    /\ Len(invoked) < MaxCalls
    /\ \E format \in CallFormats, path \in PathValues, out \in RenderOutcomes :
          LET r == render_format_to_file(formats, format, path, out) IN
          /\ invoked' = invoked \o r.invoked
          /\ call' = Call("render_format_to_file", format, "", "", path, r.ret)
    /\ renderFrame
    /\ threadFrame
    /\ UNCHANGED <<options, cleaner, formats, logged>>

RenderFormat ==
    /\ pc = "idle"
    /\ rpc = "idle"
    /\ Len(invoked) < MaxCalls
    /\ \E format \in CallFormats, out \in RenderOutcomes :
          LET r == render_format(formats, options, format, out) IN
          /\ invoked' = invoked \o r.invoked
          /\ logged' = logged \cup r.logged
          /\ call' = Call("render_format", format, "", "", <<>>, r.ret)
    /\ renderFrame
    /\ threadFrame
    /\ UNCHANGED <<options, cleaner, formats>>

NextFormats ==
    \/ SetOutput
    \/ AddFormat
    \/ RenderFormatTo
    \/ RenderFormatToFile
    \/ RenderFormat

SpecFormats == Init /\ [][NextFormats]_vars

(***************************************************************************)
(* render_all: the calling thread walks the `if` statements and spawns one *)
(* thread per test that holds; the threads run render_format on their own; *)
(* the scope joins them; then the warning is decided.                      *)
(***************************************************************************)
MaxOutputs == 3

OutputsSet(opts) == {format \in RenderAllSet : opts[OutputKey(format)] # Unset}

\* the path the model configures for a format
PathOf(format) == <<"/", format>>

\* set_options with output.<format> for a format render_all looks at
SetOutputOf ==
    /\ pc = "idle"
    /\ rpc = "idle"
    /\ Cardinality(OutputsSet(options)) < MaxOutputs
    /\ \E format \in RenderAllSet :
          SetOptionsOf(set_yaml(options, [key |-> <<OutputKey(format)>>,
                                          kind |-> "str",
                                          text |-> PathOf(format)], 0))
    /\ renderFrame
    /\ UNCHANGED renderVars

\* set_options with proofread
SetProofread ==
    /\ pc = "idle"
    /\ rpc = "idle"
    /\ \E v \in {True, False} :
          SetOptionsOf(set_yaml(options, [key |-> <<"proofread">>,
                                          kind |-> "bool", text |-> v], 0))
    /\ renderFrame
    /\ UNCHANGED renderVars

\* render_all is called: handles = vec![], the scope is entered
RenderAllCall ==
    /\ pc = "idle"
    /\ rpc = "idle"
    /\ rpc' = "scope"
    /\ rindex' = 0
    /\ handles' = <<>>
    /\ call' = Call("render_all", "", "", "", <<>>, NotCalled)
    /\ renderFrame
    /\ UNCHANGED <<options, cleaner, formats, invoked, logged, warned, tasks>>

\* the next `if` of the scope's closure; after the last one the closure ends
RenderAllIf ==
    /\ rpc = "scope"
    /\ rindex < Len(RenderAllFormats)
    /\ LET format == RenderAllFormats[rindex + 1] IN
          IF spawns(options, format)
          THEN /\ tasks' = [tasks EXCEPT ![format] = "spawned"]
               /\ handles' = Append(handles, format)
          ELSE UNCHANGED <<tasks, handles>>
    /\ rindex' = rindex + 1
    /\ rpc' = IF rindex' = Len(RenderAllFormats) THEN "join" ELSE "scope"
    /\ renderFrame
    /\ UNCHANGED <<options, cleaner, formats, call, invoked, logged, warned>>

\* a spawned thread starts to run render_format(format)
TaskRun(format) ==
    /\ Runnable(tasks, logged, format)
    /\ tasks' = [tasks EXCEPT ![format] = "rendering"]
    /\ renderFrame
    /\ UNCHANGED <<options, cleaner, formats, call, invoked, logged, warned,
                   rpc, rindex, handles>>

\* render_format(format) returns in its thread, the renderer having
\* returned `out`
TaskReturn(format) ==
    /\ tasks[format] = "rendering"
    /\ \E out \in RenderOutcomes :
          LET r == render_format(formats, options, format, out) IN
          /\ invoked' = invoked \o r.invoked
          /\ logged' = logged \cup r.logged
    /\ tasks' = [tasks EXCEPT ![format] = "done"]
    /\ renderFrame
    /\ UNCHANGED <<options, cleaner, formats, call, warned, rpc, rindex, handles>>

\* the scope ends: it has joined every thread spawned in it
ScopeExit ==
    /\ rpc = "join"
    /\ Joined(tasks)
    /\ rpc' = "check"
    /\ renderFrame
    /\ UNCHANGED <<options, cleaner, formats, call, invoked, logged, warned,
                   tasks, rindex, handles>>

\* `if handles.is_empty()`, and render_all returns
RenderAllReturn ==
    /\ rpc = "check"
    /\ warned' = (handles = <<>>)
    /\ rpc' = "returned"
    /\ call' = Call("render_all", "", "", "", <<>>, Ok)
    /\ renderFrame
    /\ UNCHANGED <<options, cleaner, formats, invoked, logged, tasks, rindex,
                   handles>>

RenderAllStep ==
    \/ RenderAllIf
    \/ \E format \in RenderAllSet : TaskRun(format)
    \/ \E format \in RenderAllSet : TaskReturn(format)
    \/ ScopeExit
    \/ RenderAllReturn

NextRenderAll ==
    \/ SetOutputOf
    \/ SetProofread
    \/ RenderAllCall
    \/ RenderAllIf
    \/ \E format \in RenderAllSet : TaskRun(format)
    \/ \E format \in RenderAllSet : TaskReturn(format)
    \/ ScopeExit
    \/ RenderAllReturn

SpecRenderAll == Init /\ [][NextRenderAll]_vars

\* every thread that can take a step is scheduled, and a renderer returns
SpecRenderAllFair == SpecRenderAll /\ WF_vars(RenderAllStep)

(***************************************************************************)
(* Option keys that fail, met by set_options, by read_config and by an     *)
(* embedded block                                                          *)
(***************************************************************************)
\* the (key, value) pairs a caller passes to set_options
ApiPairs ==
    { <<"author", <<"Q">> >>, <<"nokey", <<"Z">> >>,
      <<"input.clean", <<"Z">> >>, <<"input.yaml_blocks", True>> }

MaxPairs == 2

PairLists == UNION {[1..n -> ApiPairs] : n \in 1..MaxPairs}

PairEntry(kv) == [key |-> <<kv[1]>>, kind |-> ValueKind(kv[2]), text |-> kv[2]]

\* a variant of the loop that stops at the first key that fails
RECURSIVE set_pairs_stop(_, _, _)
set_pairs_stop(opts, kvs, i) ==
    IF i > Len(kvs) THEN opts
    ELSE IF set_yaml(opts, PairEntry(kvs[i]), 0).res.st = "err" THEN opts
    ELSE set_pairs_stop(set_yaml(opts, PairEntry(kvs[i]), 0).options, kvs, i + 1)

\* `for &(key, value) in options`: a key that fails is logged, the loop goes on
RECURSIVE set_pairs(_, _, _)
set_pairs(opts, kvs, i) ==
    IF i > Len(kvs) THEN opts
    ELSE set_pairs(set_yaml(opts, PairEntry(kvs[i]), 0).options, kvs, i + 1)

\* fn set_options: returns &mut Book, never an error
set_options(opts, kvs) == [options |-> set_pairs(opts, kvs, 1), res |-> Ok]

SetOptionsList ==
    /\ pc = "idle"
    /\ rpc = "idle"
    /\ \E kvs \in PairLists :
          /\ SetOptionsOf(set_options(options, kvs))
          /\ call' = Call("set_options", "", "", "", kvs, set_options(options, kvs).res)
    /\ renderFrame
    /\ threadFrame
    /\ UNCHANGED <<formats, invoked, logged>>

SchemaPool ==
    { <<"title", ":", " ", "X">>,
      <<"nokey", ":", " ", "Z">>,
      <<"input.clean", ":", " ", "X">>,
      <<"-", "a">> }

SchemaInputs == UNION {[1..n -> SchemaPool] : n \in 0..MaxLines}

SchemaContents ==
    { <<Dashes, <<"nokey", ":", " ", "Z">>, <<"author", ":", " ", "Y">>, Dashes,
        <<>>, <<"x">> >>,
      <<Dashes, <<"input.clean", ":", " ", "X">>, <<"title", ":", " ", "X">>, Dots>>,
      BlockAuthorZ,
      << <<"x">> >> }

InitSchema ==
    /\ NewBook
    /\ input = <<>>
    /\ dline = <<>>
    /\ dres = DirNone
    /\ src \in SchemaContents

\* read_config is called with an input of the pool
ReadConfigOf ==
    /\ pc = "idle"
    /\ result.st = "none"
    /\ \E inp \in SchemaInputs : input' = inp
    /\ pc' = "front"
    /\ UNCHANGED <<bookVars, pos, yaml, ystart, flushes, result, dirVars,
                   src, handed, blocks, renderVars, compiled, checker, fetched>>

NextSchema ==
    \/ SetOptionsList
    \/ AddChapterFromSource
    \/ ReadConfigOf
    \/ FrontMatterBreak
    \/ FrontMatterLine
    \/ FinalFlush
    \/ ChapterLine
    \/ ChaptersDone

SpecSchema == InitSchema /\ [][NextSchema]_vars

(***************************************************************************)
(* The chapter-header template: set_chapter_template compiles and stores   *)
(* it; get_chapter_header, which renderers call, uses the stored one or    *)
(* compiles one for the call                                               *)
(***************************************************************************)
\* fn get_chapter_header (&self): the number of compile_str calls it makes
\* and the template field it leaves
get_chapter_header(template) ==
    IF template = "Some"
    THEN [compiles |-> 0, chapter_template |-> template, res |-> Ok]
    ELSE [compiles |-> 1, chapter_template |-> template, res |-> Ok]

\* a renderer asks for a chapter header of the loaded book
GetChapterHeader ==
    /\ pc = "idle" \/ (pc = "returned" /\ result = Ok)
    /\ rpc = "idle"
    /\ chapters # <<>>
    /\ compiled < MaxCalls
    /\ LET r == get_chapter_header(chapter_template) IN
          /\ compiled' = compiled + r.compiles
          /\ chapter_template' = r.chapter_template
          /\ call' = Call("get_chapter_header", "", "", "", <<>>, r.res)
    /\ threadFrame
    /\ UNCHANGED <<chapters, filenames, options, cleaner, source_line, scanVars,
                   result, dirVars, src, handed, blocks, formats, invoked, logged,
                   checker, fetched>>

NextHeader ==
    \/ ReadMarkdownConfig
    \/ ReadConfigOf
    \/ FrontMatterBreak
    \/ FrontMatterLine
    \/ FinalFlush
    \/ ChapterLine
    \/ ChaptersDone
    \/ RenderFormatTo
    \/ GetChapterHeader

SpecHeader == InitSchema /\ [][NextHeader]_vars

(***************************************************************************)
(* The two ingestion modes under the resources.base_path options: a file   *)
(* of the book root, and the same content given in memory                  *)
(***************************************************************************)
\* the files that lie in the book root itself
RootFiles == {file \in ExistingFiles : Parent(file) = <<>>}

InitModes ==
    /\ NewBook
    /\ input = <<>>
    /\ dline = <<>>
    /\ dres = DirNone
    /\ src \in {FileContent(file) : file \in RootFiles}

NextModes ==
    \/ SetPath
    \/ AddChapterFile
    \/ AddChapterFromSource

SpecModes == InitModes /\ [][NextModes]_vars

(***************************************************************************)
(* add_chapter_from_source on short texts made of delimiter lines, empty   *)
(* lines and lines of text                                                 *)
(***************************************************************************)
ScanPool == {Dashes, Dots, <<>>, <<"x">>, <<"author", ":", " ", "Z">>}

ScanContents == UNION {[1..n -> ScanPool] : n \in 0..(MaxSegments + 1)}

InitScan ==
    /\ NewBook
    /\ input = <<>>
    /\ dline = <<>>
    /\ dres = DirNone
    /\ src \in ScanContents

NextScan ==
    \/ SetOptions
    \/ AddChapterFromSource

SpecScan == InitScan /\ [][NextScan]_vars

(***************************************************************************)
(* add_chapter on chapters that lie above the book file, that hold a block *)
(* which is not YAML, or that the grammar checker refuses, with            *)
(* proofreading configured through set_options                             *)
(***************************************************************************)
AnomalyFiles == {<<"a">>, <<"u">>, <<"g">>, <<"..", "/", "a">>, <<"p">>, <<"m">>}

AddChapterAnomalous ==
    /\ pc = "idle"
    /\ rpc = "idle"
    /\ Len(filenames) < MaxChapters
    /\ \E file \in AnomalyFiles : Returned(add_chapter(Book, Default, file, 0))
    /\ UNCHANGED <<source_line, chapter_template, scanVars, dirVars, src, renderVars,
                   compiled, fetched>>

\* set_options with proofread.languagetool
SetLanguagetool ==
    /\ pc = "idle"
    /\ rpc = "idle"
    /\ \E v \in {True, False} :
          SetOptionsOf(set_yaml(options, [key |-> <<"proofread.languagetool">>,
                                          kind |-> "bool", text |-> v], 0))
    /\ renderFrame
    /\ UNCHANGED renderVars

NextAnomalies ==
    \/ SetProofread
    \/ SetLanguagetool
    \/ SetOutputOf
    \/ AddChapterAnomalous

SpecAnomalies == Init /\ [][NextAnomalies]_vars

(***************************************************************************)
(* read_config called on a Book, and called again on the same Book after   *)
(* it failed.  The locals of read_config (line_number, yaml) start afresh  *)
(* at each call; the Book keeps what the failed call left in it.           *)
(***************************************************************************)
ReloadPool ==
    { <<"input.clean", ":", " ", "true">>,
      <<"lang", ":", " ", "fr">>,
      <<"nokey", ":", " ", "Z">>,
      <<"-", "a">>,
      <<"-", "m">>,
      <<"-", "p">> }

ReloadInputs == UNION {[1..n -> ReloadPool] : n \in 0..MaxLines}

\* the first read_config of the Book
ReadConfigFirst ==
    /\ pc = "idle"
    /\ result.st = "none"
    /\ \E inp \in ReloadInputs : input' = inp
    /\ pc' = "front"
    /\ UNCHANGED <<bookVars, pos, yaml, ystart, flushes, result, dirVars,
                   src, handed, blocks, renderVars, compiled, checker, fetched>>

\* a variant in which a new call starts from an empty chapter list
ReadConfigAgain_reset ==
    /\ pc = "returned"
    /\ result.st = "err"
    /\ Len(chapters) <= MaxChapters
    /\ Len(filenames) <= MaxLines
    /\ pc' = "front"
    /\ pos' = 0
    /\ yaml' = <<>>
    /\ ystart' = 1
    /\ flushes' = <<>>
    /\ result' = NotCalled
    /\ chapters' = <<>>
    /\ filenames' = <<>>
    /\ UNCHANGED <<options, cleaner, source_line, chapter_template, input, dirVars,
                   src, handed, blocks, renderVars, compiled, checker, fetched>>

\* read_config called again, on the same text, after it returned an error
ReadConfigAgain ==
    /\ pc = "returned"
    /\ result.st = "err"
    /\ Len(chapters) <= MaxChapters
    /\ Len(filenames) <= MaxLines
    /\ pc' = "front"
    /\ pos' = 0
    /\ yaml' = <<>>
    /\ ystart' = 1
    /\ flushes' = <<>>
    /\ result' = NotCalled
    /\ UNCHANGED <<bookVars, input, dirVars, src, handed, blocks, renderVars,
                   compiled, checker, fetched>>

NextReload ==
    \/ ReadConfigFirst
    \/ ReadConfigAgain
    \/ FrontMatterBreak
    \/ FrontMatterLine
    \/ FinalFlush
    \/ ChapterLine
    \/ ChaptersDone

SpecReload == Init /\ [][NextReload]_vars

(***************************************************************************)
(* add_chapter on two chapters whose embedded blocks switch the grammar    *)
(* checker's options, between calls of set_options on those options        *)
(***************************************************************************)
HookFiles == {<<"a">>, <<"b">>, <<"h">>, <<"k">>}

HookEntries ==
    {[key |-> <<k>>, kind |-> "bool", text |-> v] :
        k \in {"proofread", "proofread.languagetool", "input.yaml_blocks"},
        v \in {True, False}}
    \cup {[key |-> <<"output.proofread.html">>, kind |-> "str",
           text |-> PathOf("proofread.html")]}

\* set_options with one of the options the hook depends on
SetHookOption ==
    /\ pc = "idle"
    /\ rpc = "idle"
    /\ \E e \in HookEntries : SetOptionsOf(set_yaml(options, e, 0))
    /\ renderFrame
    /\ UNCHANGED renderVars

AddChapterHook ==
    /\ pc = "idle"
    /\ rpc = "idle"
    /\ Len(filenames) <= MaxChapters
    /\ \E file \in HookFiles : Returned(add_chapter(Book, Default, file, 0))
    /\ UNCHANGED <<source_line, chapter_template, scanVars, dirVars, src, renderVars,
                   compiled, fetched>>

NextHook == SetHookOption \/ AddChapterHook

SpecHook == Init /\ [][NextHook]_vars

(***************************************************************************)
(* get_template, on a Book whose template options and epub.version are set *)
(* through set_options                                                     *)
(***************************************************************************)
MsgInvalidTemplate == "invalid template"
MsgTemplateFile == "template"
MsgCouldNotBeRead == "could not be read"

\* File::open succeeds on a directory too; read_to_string then fails
Directories == {Parent(file) : file \in ExistingFiles} \ {<<>>}

\* the `match template`: the builtin text, by the name of its constant
fallback(opts, template) ==
    CASE template = "epub.css" -> "epub::CSS"
      [] template = "epub.chapter.xhtml" ->
            IF get_i32(opts, "epub.version").val = 3
            THEN "epub3::TEMPLATE" ELSE "epub::TEMPLATE"
      [] template = "html.css" -> "html::CSS"
      [] template = "html.css.colours" -> "html::CSS_COLOURS"
      [] template = "html.css.print" -> "html::PRINT_CSS"
      [] template = "html_single.html" -> "html_single::HTML"
      [] template = "html_single.js" -> "html_single::JS"
      [] template = "html.js" -> "html::JS"
      [] template = "html_dir.index.html" -> "html_dir::INDEX_HTML"
      [] template = "html_dir.chapter.html" -> "html_dir::CHAPTER_HTML"
      [] template = "html.highlight.js" -> "highlight::JS"
      [] template = "html.highlight.css" -> "highlight::CSS"
      [] template = "tex.template" -> "latex::TEMPLATE"
      [] OTHER -> ""

\* the `?` on get_i32("epub.version") in the arm of epub.chapter.xhtml
FallbackFails(opts, template) ==
    template = "epub.chapter.xhtml" /\ ~get_i32(opts, "epub.version").ok

\* File::open(s) and f.read_to_string(&mut res)
read_template(template, s, line) ==
    IF s \notin ExistingFiles \cup Directories
    THEN Fetched(template, Err("FileNotFound", MsgTemplateFile, line), FALSE, <<>>)
    ELSE IF s \in Directories
    THEN Fetched(template, Err("ConfigParser", MsgCouldNotBeRead, line), FALSE, <<>>)
    ELSE Fetched(template, Ok, TRUE, FileContent(s))

\* a variant that looks at the option before the name of the template
get_template_option_first(opts, template, line) ==
    IF get_path(opts, template).ok
    THEN read_template(template, get_path(opts, template).val, line)
    ELSE IF fallback(opts, template) = ""
    THEN Fetched(template, Err("ConfigParser", MsgInvalidTemplate, line), FALSE, <<>>)
    ELSE Fetched(template, Ok, FALSE, <<fallback(opts, template)>>)

\* fn get_template
get_template(opts, template, line) ==
    IF FallbackFails(opts, template)
    THEN Fetched(template, Err("BookOption", MsgUnknownKey, line), FALSE, <<>>)
    ELSE IF fallback(opts, template) = ""
    THEN Fetched(template, Err("ConfigParser", MsgInvalidTemplate, line), FALSE, <<>>)
    ELSE IF get_path(opts, template).ok
    THEN read_template(template, get_path(opts, template).val, line)
    ELSE Fetched(template, Ok, FALSE, <<fallback(opts, template)>>)

MaxTemplates == 1

\* a file, a path nothing lies at, a directory
TemplatePaths == {<<"a">>, <<"m">>, <<"d">>}

\* the path options the model sets: every template option and one other
TemplatePathKeys == TemplateKeys \cup {"resources.base_path"}

PathsSet(opts) == {k \in TemplatePathKeys : opts[k] # Unset}

TemplateEntries ==
    {[key |-> <<k>>, kind |-> "str", text |-> s] :
        k \in TemplatePathKeys, s \in TemplatePaths}

VersionEntries ==
    {[key |-> <<"epub.version">>, kind |-> "int", text |-> v] :
        v \in {<<"2">>, <<"3">>}}

\* the names get_template is asked for: the templates, two options that are
\* not templates, and a name that is no option at all
AskedTemplates == TemplateKeys \cup {"resources.base_path", "epub.version", "html.cs"}

InitTemplate ==
    /\ NewBookWith(TemplateOptions)
    /\ input = <<>>
    /\ dline = <<>>
    /\ dres = DirNone
    /\ src = <<>>

\* set_options with a template option or resources.base_path
SetTemplateOption ==
    /\ pc = "idle"
    /\ rpc = "idle"
    /\ Cardinality(PathsSet(options)) < MaxTemplates
    /\ \E e \in TemplateEntries : SetOptionsOf(set_yaml(options, e, 0))
    /\ renderFrame
    /\ UNCHANGED renderVars

\* set_options with epub.version
SetEpubVersion ==
    /\ pc = "idle"
    /\ rpc = "idle"
    /\ \E e \in VersionEntries : SetOptionsOf(set_yaml(options, e, 0))
    /\ renderFrame
    /\ UNCHANGED renderVars

\* get_template(template) is called and returns
GetTemplate ==
    /\ pc = "idle"
    /\ rpc = "idle"
    /\ \E template \in AskedTemplates :
          fetched' = get_template(options, template, source_line)
    /\ UNCHANGED <<bookVars, scanVars, result, dirVars, src, handed, blocks,
                   renderVars, compiled, checker>>

NextTemplate == SetTemplateOption \/ SetEpubVersion \/ GetTemplate

SpecTemplate == InitTemplate /\ [][NextTemplate]_vars

(***************************************************************************)
(* Properties                                                              *)
(***************************************************************************)
Least(S) == CHOOSE i \in S : \A j \in S : i <= j

\* the chapter-list region starts at the first line opening with a marker
FrontEnd(inp) ==
    IF \E i \in 1..Len(inp) : starts_with(inp[i], DirectiveStart)
    THEN Least({i \in 1..Len(inp) : starts_with(inp[i], DirectiveStart)})
    ELSE Len(inp) + 1

IsDirectiveLine(l) == trim(l) # <<>> /\ ~starts_with(trim(l), {"#"})

\* the indices of the chapter-directive lines of an input, in document order
DirectiveIdx(inp) ==
    LET InRegion(i) == i >= FrontEnd(inp) /\ IsDirectiveLine(inp[i])
    IN SelectSeq([i \in 1..Len(inp) |-> i], InRegion)

Loaded == pc = "returned" /\ result.st = "ok"

\* C1: in every reachable state of a Book, after any sequence of add_chapter
\* and add_chapter_from_source calls, succeeding or failing, chapters and
\* filenames have equal length.
C1_EqualLength == Len(chapters) = Len(filenames)

\* C2: when read_config returns success on a fresh Book, chapters and
\* filenames have equal length, and that length is the number of
\* chapter-directive lines (non-blank, not starting with '#') of the input.
C2_LoadedLengths ==
    Loaded => /\ Len(chapters) = Len(filenames)
              /\ Len(chapters) = Len(DirectiveIdx(input))

\* a successful load whose chapter list also holds a line that is skipped
C2_Witness ==
    /\ Loaded
    /\ Len(chapters) = 1
    /\ FrontEnd(input) = 2
    /\ Len(input) = 3

\* the <file> of a '-', '+' or '!' directive: what follows the marker
FileToken(l) == trim(Tail(l))

C3_Stored(l, number, file) ==
    /\ Head(l) = "-" => number = Unnumbered /\ file = FileToken(l)
    /\ Head(l) = "+" => number = Default /\ file = FileToken(l)
    /\ Head(l) = "!" => number = Hidden /\ file = FileToken(l)
    /\ Head(l) \in Digits => number.tag = "Specified"

\* C3: after a successful load the i-th directive line of the chapter list
\* is the i-th chapter; '-<file>' is stored as Unnumbered, '+<file>' as
\* Default, '!<file>' as Hidden, and filenames[i] is the <file> token, with
\* or without whitespace between the marker and the file.
C3_DirectiveOrder ==
    Loaded =>
        /\ Len(chapters) = Len(DirectiveIdx(input))
        /\ Len(filenames) = Len(DirectiveIdx(input))
        /\ \A i \in 1..Len(DirectiveIdx(input)) :
              C3_Stored(trim(input[DirectiveIdx(input)[i]]),
                        chapters[i].number, filenames[i])

\* two chapters of different kinds, the first written with a blank after the marker
C3_Witness ==
    /\ Loaded
    /\ Len(chapters) = 2
    /\ chapters[1].number = Hidden /\ filenames[1] = <<"b">>
    /\ chapters[2].number = Unnumbered /\ filenames[2] = <<"a">>
    /\ input[2] = <<"!", " ", "b">>

RECURSIVE leading_digits(_)
leading_digits(l) ==
    IF l # <<>> /\ is_digit(Head(l)) THEN 1 + leading_digits(Tail(l)) ELSE 0

NoBlank(l) == \A i \in 1..Len(l) : ~is_whitespace(l[i])

\* what follows the delimiter of a line <int><delim>...
AfterDelim(t) == SubSeq(t, leading_digits(t) + 2, Len(t))

\* <int><delim>: digits, then one of '.', ':', '+'
HasNumberPrefix(t) ==
    /\ leading_digits(t) >= 1
    /\ Len(t) > leading_digits(t)
    /\ t[leading_digits(t) + 1] \in NumberDelims

\* <int><delim><file>, <file> one whitespace-free token, blanks optional before it
IsNumberedForm(t) ==
    /\ HasNumberPrefix(t)
    /\ trim(AfterDelim(t)) # <<>>
    /\ NoBlank(trim(AfterDelim(t)))

Stepped == pc = "returned" /\ dres.st # "none"

\* C4: a directive line <int><delim><file>, delim one of '.', ':', '+', is
\* ingested as Specified(int) with registered filename exactly <file>, with
\* or without whitespace after the delimiter.
C4_NumberedDirective ==
    (Stepped /\ IsNumberedForm(trim(dline))) =>
        /\ dres.st = "ok"
        /\ dres.number =
               Specified(digits_value(SubSeq(trim(dline), 1,
                                             leading_digits(trim(dline)))))
        /\ dres.file = trim(AfterDelim(trim(dline)))
        /\ filenames = <<trim(AfterDelim(trim(dline)))>>

\* a digit-led line with no delimiter, or whose text before the first
\* delimiter is not an integer
IsIllFormedNumber(t) ==
    /\ starts_with(t, Digits)
    /\ \/ Len(splitn2(t)) # 2
       \/ ~parse_i32(splitn2(t)[1]).ok

\* C5: a chapter-list line that begins with a digit but has no delimiter
\* after the number, or a non-integer before the first delimiter, makes
\* read_config return a ConfigParser error and appends no chapter.
C5_IllFormedNumber ==
    (Stepped /\ IsIllFormedNumber(trim(dline))) =>
        /\ result.st = "err"
        /\ result.kind = "ConfigParser"
        /\ chapters = <<>>
        /\ filenames = <<>>

\* the four directive forms, and what follows the marker or the delimiter
IsDirectiveForm(t) == starts_with(t, {"-", "+", "!"}) \/ HasNumberPrefix(t)

AfterMarker(t) == IF starts_with(t, {"-", "+", "!"}) THEN Tail(t) ELSE AfterDelim(t)

ConfigParserError(msg) ==
    /\ result.st = "err"
    /\ result.kind = "ConfigParser"
    /\ result.msg = msg
    /\ chapters = <<>>
    /\ filenames = <<>>

\* C6: for '-', '+', '!' and <int><delim>, no file token after the marker or
\* delimiter gives the ConfigParser error "no chapter name specified", more
\* than one token gives "chapter filenames must not contain whitespace";
\* either way no chapter is ingested for the line.
C6_FileToken ==
    (Stepped /\ IsDirectiveForm(trim(dline))) =>
        /\ Len(split_whitespace(AfterMarker(trim(dline)))) = 0
              => ConfigParserError(MsgNoName)
        /\ Len(split_whitespace(AfterMarker(trim(dline)))) > 1
              => ConfigParserError(MsgWhitespace)

IsOptionLine(l) ==
    /\ l = trim(l)
    /\ IsMapEntry(l)
    /\ KeyName(Entry(l).key) \in OptionKeys
    /\ Entry(l).kind \in {"str", "bool"}
    /\ TypeOk(KeyName(Entry(l).key), Entry(l))

IsGoodDirective(l) ==
    /\ starts_with(l, DirectiveStart)
    /\ Directive(l).st = "ok"
    /\ Directive(l).file \in ExistingFiles

\* n option lines, blank lines up to line m, then chapter directives
C7_Shape(inp, n, m) ==
    /\ n >= 1 /\ n <= m /\ m <= Len(inp)
    /\ \A i \in 1..n : IsOptionLine(inp[i])
    /\ \A i \in (n + 1)..m : inp[i] = <<>>
    /\ \A i \in (m + 1)..Len(inp) : IsGoodDirective(inp[i])

\* every option holds the value of the last line that writes it
C7_OptionsApplied(inp, n) ==
    \A i \in 1..n :
        (\A j \in (i + 1)..n : Entry(inp[j]).key # Entry(inp[i]).key)
            => options[KeyName(Entry(inp[i]).key)] = Entry(inp[i]).text

C7_ChaptersRegistered(inp, m) ==
    /\ Len(chapters) = Len(inp) - m
    /\ Len(filenames) = Len(inp) - m
    /\ \A i \in 1..(Len(inp) - m) :
          /\ i <= Len(chapters) /\ i <= Len(filenames)
          /\ chapters[i].number = Directive(inp[m + i]).number
          /\ filenames[i] = Directive(inp[m + i]).file

\* C7: for an input of n single-line `key: value` front-matter lines with
\* recognized keys, then optional blank lines, then chapter directives,
\* read_config applies every one of the n options and registers exactly the
\* chapters the directives name; no front-matter line is lost at the boundary.
C7_FrontMatterBoundary ==
    pc = "returned" =>
        \A n, m \in 0..Len(input) :
            C7_Shape(input, n, m) =>
                /\ result.st = "ok"
                /\ C7_OptionsApplied(input, n)
                /\ C7_ChaptersRegistered(input, m)

\* a line ending in a block-continuation indicator
IsOpener(l) == ends_with(trim(l), BlockIndicators)

\* the last of the lines that follow line i and are indented deeper than it
RECURSIVE ContinuationEnd(_, _, _)
ContinuationEnd(inp, i, j) ==
    IF j < Len(inp) /\ ~IsBlank(inp[j + 1]) /\ indent(inp[j + 1]) > indent(inp[i])
    THEN ContinuationEnd(inp, i, j + 1)
    ELSE j

\* an application of the buffer holding line i holds all its continuation lines
WholeValue(inp, f) ==
    \A i \in f.first..f.last :
        IsOpener(inp[i]) => ContinuationEnd(inp, i, i) <= f.last

\* C8 as stated: a front-matter value that opens on a line ending in '>',
\* '|', ':' or '-' and continues on indented lines is applied in a single
\* application holding the opening line and all of its continuation lines.
C8_ValueNeverSplit ==
    \A k \in 1..Len(flushes) :
        flushes[k].st = "ok" => WholeValue(input, flushes[k])

\* a line that, taken alone, loads as one mapping document
LoadsAsMapping(l) ==
    /\ YamlLoad(<<l>>).st = "ok"
    /\ YamlLoad(<<l>>).ndocs = 1
    /\ YamlLoad(<<l>>).hash

\* no continuation line after the first looks like a mapping of its own
PlainContinuation(inp, i) ==
    \A j \in (i + 2)..ContinuationEnd(inp, i, i) : ~LoadsAsMapping(inp[j])

WholePlainValue(inp, f) ==
    \A i \in f.first..f.last :
        (IsOpener(inp[i]) /\ PlainContinuation(inp, i))
            => ContinuationEnd(inp, i, i) <= f.last

\* C8, amended: the value is applied in a single application holding the
\* opening line and all of its continuation lines, provided no continuation
\* line after the first is, taken alone, a mapping.
C8_PlainValueNeverSplit ==
    \A k \in 1..Len(flushes) :
        flushes[k].st = "ok" => WholePlainValue(input, flushes[k])

\* an application that holds an opening line and its two continuation lines
C8_Witness ==
    \E k \in 1..Len(flushes) :
        /\ flushes[k].st = "ok"
        /\ flushes[k].first = 1
        /\ flushes[k].last = 3
        /\ IsOpener(input[1])
        /\ ContinuationEnd(input, 1, 1) = 3

\* the document of lines first..last is one mapping with an unknown key
HasUnknownKey(y) ==
    /\ y.st = "ok" /\ y.ndocs = 1 /\ y.hash
    /\ \E n \in 1..Len(y.entries) : KeyName(y.entries[n].key) \notin OptionKeys

UnknownKeyIn(inp, f) == HasUnknownKey(YamlLoad(SubSeq(inp, f.first, f.last)))

\* C9: if a front-matter document, applied during the scan or at the final
\* flush, contains an unknown option key, read_config returns a BookOption
\* error and no chapter directive is ingested.
C9_UnknownKeyAborts ==
    \A k \in 1..Len(flushes) :
        UnknownKeyIn(input, flushes[k]) =>
            /\ pc = "returned"
            /\ result.st = "err"
            /\ result.kind = "BookOption"
            /\ chapters = <<>>
            /\ filenames = <<>>

\* the unknown key is met by an application made during the scan, with a
\* chapter directive waiting further down
C9_Witness ==
    /\ Len(flushes) >= 1
    /\ ~flushes[Len(flushes)].final
    /\ UnknownKeyIn(input, flushes[Len(flushes)])
    /\ \E i \in 1..Len(input) : starts_with(input[i], DirectiveStart)
    /\ result.kind = "BookOption"

Count(l, ls) == Cardinality({i \in 1..Len(ls) : ls[i] = l})

BlockBody(ls, B) == SubSeq(ls, B.first + 1, B.last - 1)

IsMapping(y) == y.st = "ok" /\ y.ndocs = 1 /\ y.hash

\* a closed block whose body is a single mapping
IsMappingBlock(ls, B) == B.closed /\ IsMapping(YamlLoad(BlockBody(ls, B)))

BlockEntries(ls, B) == YamlLoad(BlockBody(ls, B)).entries

\* none of the block's lines is left over in the content
BlockAbsent(ls, B, content) ==
    \A i \in B.first..B.last :
        ls[i] # <<>> =>
            Count(ls[i], content) + Count(ls[i], SubSeq(ls, B.first, B.last))
                <= Count(ls[i], ls)

\* the step is a successful add_chapter_from_source(src)
SourceIngested ==
    /\ Len(filenames') = Len(filenames) + 1
    /\ filenames'[Len(filenames')] = <<>>
    /\ Len(handed') = 1

BlockHolds(ls, B, es, opts1, content) ==
    /\ \A n \in 1..Len(es) :
          KeyName(es[n].key) \in OptionKeys => opts1[KeyName(es[n].key)] = es[n].text
    /\ BlockAbsent(ls, B, content)

\* C10 as stated: when a chapter's content holds a well-delimited block that
\* is a single mapping and input.yaml_blocks is enabled, then after ingestion
\* every recognized key of the block holds the block's value and the block's
\* text is absent from the content handed to the parser.
C10_BlockOverrides ==
    [][(SourceIngested /\ options["input.yaml_blocks"] = True) =>
          \A q \in 1..Len(blocks') :
              IsMappingBlock(src, blocks'[q]) =>
                  BlockHolds(src, blocks'[q], BlockEntries(src, blocks'[q]),
                             options', handed'[1])]_vars

\* an entry that writes its key: a recognized key, a value of the key's type
WritesKey(e) == KeyName(e.key) \in OptionKeys /\ TypeOk(KeyName(e.key), e)

EntriesWrite(es, k) ==
    \E n \in 1..Len(es) : KeyName(es[n].key) = k /\ WritesKey(es[n])

BlockWrites(ls, B, k) == IsMappingBlock(ls, B) /\ EntriesWrite(BlockEntries(ls, B), k)

\* entry n of block q is the last of the chapter to write its key
IsLastWrite(ls, bl, q, es, n) ==
    /\ WritesKey(es[n])
    /\ \A n2 \in (n + 1)..Len(es) : es[n2].key # es[n].key \/ ~WritesKey(es[n2])
    /\ \A q2 \in (q + 1)..Len(bl) : ~BlockWrites(ls, bl[q2], KeyName(es[n].key))

EntriesHold(ls, bl, q, es, opts1) ==
    \A n \in 1..Len(es) :
        IsLastWrite(ls, bl, q, es, n) => opts1[KeyName(es[n].key)] = es[n].text

LastWritesHold(ls, bl, opts1) ==
    \A q \in 1..Len(bl) :
        IsMappingBlock(ls, bl[q]) =>
            EntriesHold(ls, bl, q, BlockEntries(ls, bl[q]), opts1)

\* no block of the chapter writes input.yaml_blocks
SwitchUntouched(ls, bl) ==
    \A q \in 1..Len(bl) : ~BlockWrites(ls, bl[q], "input.yaml_blocks")

\* C10, amended: with input.yaml_blocks enabled and no block of the chapter
\* writing that option, after ingestion every recognized key holds the last
\* value of its type that the chapter's single-mapping blocks give it, and
\* the text of each such block is absent from the content handed to the
\* parser.
C10_LastBlockOverrides ==
    [][(/\ SourceIngested
        /\ options["input.yaml_blocks"] = True
        /\ SwitchUntouched(src, blocks')) =>
          /\ LastWritesHold(src, blocks', options')
          /\ \A q \in 1..Len(blocks') :
                IsMappingBlock(src, blocks'[q]) =>
                    BlockAbsent(src, blocks'[q], handed'[1])]_vars

\* two applied blocks of one chapter write `author`; the later one is held
C10_Witness ==
    /\ filenames = << <<>> >>
    /\ Len(chapters) = 1
    /\ Len(blocks) = 2
    /\ blocks[1].applied /\ blocks[2].applied
    /\ src[2] = <<"author", ":", " ", "Z">>
    /\ options["author"] = <<"Y">>
    /\ options["title"] = <<"X">>
    /\ \A i \in 1..Len(handed[1]) : handed[1][i] = <<>>

\* the block's lines, delimiters included, stand in the content as written
BlockSurvives(ls, B, content) ==
    \E o \in 0..Len(content) :
        /\ o + (B.last - B.first) + 1 <= Len(content)
        /\ \A i \in 0..(B.last - B.first) : content[o + i + 1] = ls[B.first + i]

DirOf(file) ==
    IF \E i \in 1..Len(file) : file[i] = "/"
    THEN SubSeq(file, 1, Least({i \in 1..Len(file) :
                                   /\ file[i] = "/"
                                   /\ \A j \in (i + 1)..Len(file) : file[j] # "/"}) - 1)
    ELSE <<>>

\* the step is a successful add_chapter of a file
FileIngested ==
    /\ Len(chapters') = Len(chapters) + 1
    /\ Len(filenames') = Len(filenames) + 1
    /\ filenames'[Len(filenames')] # <<>>

OffsetsAsConfigured(opts, file, tokens) ==
    /\ opts["resources.base_path"] # Unset =>
          /\ tokens.link_offset = opts["resources.base_path"]
          /\ tokens.image_offset = opts["resources.base_path"]
    /\ opts["resources.base_path"] = Unset =>
          /\ tokens.link_offset =
                IF opts["resources.base_path.links"] # Unset
                THEN opts["resources.base_path.links"] ELSE DirOf(file)
          /\ tokens.image_offset =
                IF opts["resources.base_path.images"] # Unset
                THEN opts["resources.base_path.images"] ELSE DirOf(file)

\* C12: for a chapter ingested from a file, the link and image offsets are
\* the chapter file's directory by default; resources.base_path, if set, is
\* used for both whatever the per-kind options say; otherwise the images
\* base path replaces only the image offset and the links base path only the
\* link offset.
C12_Offsets ==
    [][FileIngested =>
          OffsetsAsConfigured(options, filenames'[Len(filenames')],
                              chapters'[Len(chapters')].tokens)]_vars

\* a chapter in directory d ingested with only the links base path set
C12_Witness ==
    /\ filenames = << <<"d", "/", "a">> >>
    /\ Len(chapters) = 1
    /\ options["resources.base_path"] = Unset
    /\ options["resources.base_path.images"] = Unset
    /\ chapters[1].tokens.link_offset = <<"r">>
    /\ chapters[1].tokens.image_offset = <<"d">>

\* the line closing a block opened on the first line; 0 if there is none
LeadingEnd(ls) ==
    IF \E j \in 2..Len(ls) : ls[j] \in {Dashes, Dots}
    THEN Least({j \in 2..Len(ls) : ls[j] \in {Dashes, Dots}})
    ELSE 0

\* the source opens with a '---' block that is a single mapping
HasLeadingBlock(ls) ==
    /\ Len(ls) >= 2
    /\ ls[1] = Dashes
    /\ LeadingEnd(ls) # 0
    /\ IsMapping(YamlLoad(SubSeq(ls, 2, LeadingEnd(ls) - 1)))

LeadingBlockApplied(ls, bl, opts1) ==
    /\ Len(bl) >= 1
    /\ bl[1].first = 1
    /\ bl[1].last = LeadingEnd(ls)
    /\ bl[1].applied
    /\ bl[1].entries = YamlLoad(SubSeq(ls, 2, LeadingEnd(ls) - 1)).entries
    /\ EntriesHold(ls, bl, 1, bl[1].entries, opts1)

\* C20: read_markdown_config force-enables embedded blocks, so the options of
\* a leading '---' mapping block of the source are applied whatever
\* input.yaml_blocks was before, and on success it appends exactly one
\* chapter, with Number Hidden and an empty filename.
C20_MarkdownConfig ==
    [][(chapters' # chapters \/ filenames' # filenames) =>
          /\ Len(chapters') = Len(chapters) + 1
          /\ SubSeq(chapters', 1, Len(chapters)) = chapters
          /\ chapters'[Len(chapters')].number = Hidden
          /\ filenames' = Append(filenames, <<>>)
          /\ HasLeadingBlock(src) => LeadingBlockApplied(src, blocks', options')]_vars

\* the block `author: Z` at the head of the source has set the author
C20_Witness ==
    /\ Len(chapters) = 1
    /\ chapters[1].number = Hidden
    /\ filenames = << <<>> >>
    /\ HasLeadingBlock(src)
    /\ src[2] = <<"author", ":", " ", "Z">>
    /\ Len(blocks) = 1
    /\ options["author"] = <<"Z">>

\* the step is a call of add_format under a key the registry already holds
Replaces ==
    /\ call'.op = "add_format"
    /\ call'.format \in DOMAIN formats
    /\ (call' # call \/ formats' # formats)

\* the invocations of renderers the step has made
NewInvocations == SubSeq(invoked', Len(invoked) + 1, Len(invoked'))

RenderOps == {"render_format_to", "render_format_to_file", "render_format"}

\* C13: add_format under an existing key replaces that key's (description,
\* renderer) without an error, leaves the number of entries and every other
\* entry as they were, and a render of a key invokes the renderer the
\* registry then holds for it: the one registered last, never one it replaced.
C13_AddFormatReplaces ==
    [][/\ Replaces =>
            /\ call'.ret = Ok
            /\ formats'[call'.format] = [description |-> call'.description,
                                        renderer |-> call'.renderer]
            /\ Cardinality(DOMAIN formats') = Cardinality(DOMAIN formats)
            /\ \A k \in DOMAIN formats \ {call'.format} :
                  k \in DOMAIN formats' /\ formats'[k] = formats[k]
       /\ formats' # formats => call'.op = "add_format" /\ call' # call
       /\ \A i \in 1..Len(NewInvocations) :
            /\ call'.format \in DOMAIN formats
            /\ NewInvocations[i].renderer = formats[call'.format].renderer]_vars

\* "pdf" was registered again with the renderer Dummy, and the render of
\* "pdf" that followed invoked Dummy
C13_Witness ==
    /\ call.op \in RenderOps
    /\ call.format = "pdf"
    /\ formats["pdf"] = [description |-> "Some dummy implementation",
                         renderer |-> "Dummy"]
    /\ Cardinality(DOMAIN formats) = Cardinality(BuiltinFormats)
    /\ Len(invoked) >= 1
    /\ invoked[Len(invoked)].renderer = "Dummy"

\* the step is a call of render_format_to or of render_format_to_file
DirectRender ==
    /\ call'.op \in {"render_format_to", "render_format_to_file"}
    /\ (call' # call \/ invoked' # invoked)

RenderMethod(op) == IF op = "render_format_to" THEN "render" ELSE "render_to_file"

\* C18: render_format_to and render_format_to_file return an "unknown format"
\* error and invoke no renderer when the key is not registered; when it is,
\* they invoke that key's renderer exactly once, on the writer or path they
\* were given, and return the renderer's error unchanged if it fails.
C18_DirectRender ==
    [][DirectRender =>
          IF call'.format \notin DOMAIN formats
          THEN /\ invoked' = invoked
               /\ call'.ret = Err("Default", MsgUnknownFormat, 0)
          ELSE /\ Len(invoked') = Len(invoked) + 1
               /\ SubSeq(invoked', 1, Len(invoked)) = invoked
               /\ invoked'[Len(invoked')].renderer = formats[call'.format].renderer
               /\ invoked'[Len(invoked')].method = RenderMethod(call'.op)
               /\ invoked'[Len(invoked')].to = call'.to
               /\ call'.ret = invoked'[Len(invoked')].ret]_vars

\* render_format_to("pdf") returned its renderer's error, and then
\* render_format_to_file("foo"), with no format "foo" registered, returned
\* the "unknown format" error and invoked nothing
C18_Witness ==
    /\ call.op = "render_format_to_file"
    /\ call.format = "foo"
    /\ "foo" \notin DOMAIN formats
    /\ call.ret = Err("Default", MsgUnknownFormat, 0)
    /\ Len(invoked) = 1
    /\ invoked[1] = Invocation("Pdf", "render", Writer, RenderError)

\* the step is a call of render_format
ConditionalRender ==
    /\ call'.op = "render_format"
    /\ (call' # call \/ invoked' # invoked \/ logged' # logged)

OutputIsSet(opts, format) ==
    OutputKey(format) \in DOMAIN opts /\ opts[OutputKey(format)] # Unset

\* C19: render_format(format) invokes no renderer and changes nothing when
\* output.<format> is not set; when it is set, it renders that format to the
\* configured path; in neither case does it report an error to its caller.
C19_RenderFormat ==
    [][ConditionalRender =>
          /\ call'.ret = Ok
          /\ <<chapters', filenames', options', cleaner', formats'>>
                = <<chapters, filenames, options, cleaner, formats>>
          /\ IF OutputIsSet(options, call'.format)
             THEN /\ call'.format \in DOMAIN formats
                  /\ Len(NewInvocations) = 1
                  /\ NewInvocations[1].renderer = formats[call'.format].renderer
                  /\ NewInvocations[1].method = "render_to_file"
                  /\ NewInvocations[1].to = options[OutputKey(call'.format)]
                  /\ logged' \in {logged, logged \cup {call'.format}}
             ELSE /\ invoked' = invoked
                  /\ logged' = logged]_vars

\* render_format("pdf") under output.pdf = r made the renderer of "pdf"
\* render to r; the renderer failed, the failure was logged, and the caller
\* got no error
C19_Witness ==
    /\ call.op = "render_format"
    /\ call.format = "pdf"
    /\ call.ret = Ok
    /\ options["output.pdf"] = <<"r">>
    /\ invoked = <<Invocation("Pdf", "render_to_file", <<"r">>, RenderError)>>
    /\ logged = {"pdf"}

\* the formats render_all is to render under the options: the six plain
\* formats whose output option is set, and the proofreading formats whose
\* output option is set when the proofread flag is true
Requested(opts) ==
    {format \in RenderAllSet \ ProofFormats : opts[OutputKey(format)] # Unset}
    \cup {format \in ProofFormats :
             opts["proofread"] = True /\ opts[OutputKey(format)] # Unset}

Started(ts) == {format \in DOMAIN ts : ts[format] # "none"}

\* C14: render_all starts exactly one task for each of pdf, epub, html_dir,
\* odt, html, tex whose output option is set, and one for each of
\* proofread.pdf, proofread.html_dir, proofread.html whose output option is
\* set only when proofread is true; it starts no other task; it emits the
\* "no output file was specified" warning exactly when it started no task,
\* and then no renderer is invoked.
C14_RenderAllTasks ==
    /\ Started(tasks) \subseteq Requested(options)
    /\ Len(handles) = Cardinality(Started(tasks))
    /\ {handles[i] : i \in 1..Len(handles)} = Started(tasks)
    /\ rpc \in {"join", "check", "returned"} => Started(tasks) = Requested(options)
    /\ rpc = "returned" => (warned <=> Started(tasks) = {})
    /\ rpc # "returned" => ~warned
    /\ warned => invoked = <<>>

\* render_all has returned: with proofread true it started the tasks of pdf
\* and proofread.html, the two outputs set, and gave no warning
C14_Witness ==
    /\ rpc = "returned"
    /\ options["proofread"] = True
    /\ OutputsSet(options) = {"pdf", "proofread.html"}
    /\ handles = <<"pdf", "proofread.html">>
    /\ tasks["pdf"] = "done"
    /\ tasks["proofread.html"] = "done"
    /\ ~warned

\* the invocations made of the renderer of a format on its configured path
RendersOf(format) ==
    {i \in 1..Len(invoked) :
        /\ invoked[i].renderer = formats[format].renderer
        /\ invoked[i].method = "render_to_file"
        /\ invoked[i].to = options[OutputKey(format)]}

Failed == {i \in 1..Len(invoked) : invoked[i].ret = RenderError}

\* C15: a renderer that returns an error stops nothing: under every
\* interleaving each thread still to run can run and each running renderer
\* can return, and when render_all has returned, which it does normally,
\* every requested format's renderer has been invoked once and has
\* completed, the failures having gone to the log only.
C15_FailureIsolated ==
    /\ \A format \in RenderAllSet :
          /\ tasks[format] = "spawned" => ENABLED TaskRun(format)
          /\ tasks[format] = "rendering" => ENABLED TaskReturn(format)
    /\ rpc = "returned" =>
          /\ call.ret = Ok
          /\ Len(invoked) = Cardinality(Requested(options))
          /\ \A format \in Requested(options) :
                /\ tasks[format] = "done"
                /\ Cardinality(RendersOf(format)) = 1
                /\ (RendersOf(format) \cap Failed # {}) <=> format \in logged

\* render_all has returned Ok: the renderer of pdf had failed first, and
\* the renderer of epub was invoked all the same and succeeded
C15_Witness ==
    /\ rpc = "returned"
    /\ call.ret = Ok
    /\ handles = <<"pdf", "epub">>
    /\ invoked = <<Invocation("Pdf", "render_to_file", PathOf("pdf"), RenderError),
                   Invocation("Epub", "render_to_file", PathOf("epub"), Ok)>>
    /\ logged = {"pdf"}

\* C16: render_all is a barrier: it passes the end of the scope, and so
\* returns, only after every task it spawned has completed, and, every
\* renderer terminating, a call of render_all eventually returns.
C16_Barrier ==
    /\ [](rpc \in {"check", "returned"} =>
             \A format \in RenderAllSet :
                /\ tasks[format] \in {"none", "done"}
                /\ tasks[format] = "done" <=> RendersOf(format) # {})
    /\ (rpc = "scope" ~> rpc = "returned")

\* render_all has returned after the three tasks it spawned have completed
C16_Witness ==
    /\ rpc = "returned"
    /\ handles = <<"odt", "html", "tex">>
    /\ \A format \in {"odt", "html", "tex"} : tasks[format] = "done"
    /\ Len(invoked) = Len(handles)

\* the step is a call of set_options
OptionsSet ==
    /\ call'.op = "set_options"
    /\ pc = "idle" /\ pc' = "idle"
    /\ Len(filenames') = Len(filenames)
    /\ (call' # call \/ options' # options)

PairWrites(kv) == WritesKey(PairEntry(kv))

\* pair n is the last pair of the list to write its key
IsLastPair(kvs, n) ==
    /\ PairWrites(kvs[n])
    /\ \A n2 \in (n + 1)..Len(kvs) : kvs[n2][1] # kvs[n][1] \/ ~PairWrites(kvs[n2])

\* every key holds what the last pair to write it gave it, or what it held
PairsHold(kvs, opts, opts1) ==
    /\ \A n \in 1..Len(kvs) : IsLastPair(kvs, n) => opts1[kvs[n][1]] = kvs[n][2]
    /\ \A k \in OptionKeys :
          (\A n \in 1..Len(kvs) : kvs[n][1] # k \/ ~PairWrites(kvs[n])) =>
              opts1[k] = opts[k]

\* the step has applied a front-matter document and met a key that fails
FlushMetBadKey ==
    /\ Len(flushes') = Len(flushes) + 1
    /\ flushes'[Len(flushes')].st = "BookOption"

\* the step is an add_chapter_from_source(src) that got past the parser
SourceRead == pc = "idle" /\ Len(filenames') = Len(filenames) + 1

\* an applied block of the chapter holds an entry that fails
BlockMetBadKey(bl) ==
    \E q \in 1..Len(bl) :
        bl[q].applied /\ \E n \in 1..Len(bl[q].entries) : ~WritesKey(bl[q].entries[n])

\* C21 as stated: a key that fails with a BookOption error stops the
\* enclosing operation, which returns that error: read_config, set_options
\* and the ingestion of a chapter with an embedded block alike.
C21_SchemaFatal ==
    [][/\ FlushMetBadKey =>
            pc' = "returned" /\ result'.st = "err" /\ result'.kind = "BookOption"
       /\ (OptionsSet /\ \E n \in 1..Len(call'.to) : ~PairWrites(call'.to[n])) =>
            call'.ret.st = "err" /\ call'.ret.kind = "BookOption"
       /\ (SourceRead /\ BlockMetBadKey(blocks')) =>
            result'.st = "err" /\ result'.kind = "BookOption"]_vars

\* C21, amended: a key that fails in the front matter stops read_config,
\* which returns the BookOption error before any chapter is ingested; a key
\* that fails in set_options or in an embedded block of a chapter is logged
\* and skipped: set_options returns no error and the other pairs are applied,
\* the ingestion returns Ok, appends the chapter and applies the block's
\* other entries.
C21_SchemaFatalInFrontMatter ==
    [][/\ FlushMetBadKey =>
            /\ pc' = "returned"
            /\ result'.st = "err" /\ result'.kind = "BookOption"
            /\ chapters' = <<>> /\ filenames' = <<>>
       /\ OptionsSet =>
            /\ call'.ret = Ok
            /\ chapters' = chapters
            /\ PairsHold(call'.to, options, options')
       /\ (SourceRead /\ BlockMetBadKey(blocks')) =>
            /\ result' = Ok
            /\ chapters' = Append(chapters, chapters'[Len(chapters')])
            /\ filenames' = Append(filenames, <<>>)
            /\ SwitchUntouched(src, blocks') => LastWritesHold(src, blocks', options')]_vars

\* set_options was given a key that fails and then `author`, which it has
\* set; the chapter ingested next had a block with a key that fails and then
\* `author: Y`, which was applied, and the ingestion returned Ok
C21_Witness ==
    /\ call.op = "set_options"
    /\ call.to = << <<"nokey", <<"Z">> >>, <<"input.yaml_blocks", True>> >>
    /\ call.ret = Ok
    /\ BlockMetBadKey(blocks)
    /\ result = Ok
    /\ Len(chapters) = 1
    /\ options["author"] = <<"Y">>

\* the first entry of a mapping that the Option Store refuses; 0 if none
FirstRefused(es) ==
    Least({n \in 1..Len(es) : ~WritesKey(es[n])} \cup {Len(es) + 1}) % (Len(es) + 1)

\* line l of the input holds the key of the entry the application f refused
HoldsRefusedKey(inp, f, l) ==
    /\ l \in f.first..f.last
    /\ IsMapEntry(inp[l])
    /\ Entry(inp[l]).key =
          YamlLoad(SubSeq(inp, f.first, f.last)).entries[
              FirstRefused(YamlLoad(SubSeq(inp, f.first, f.last)).entries)].key

\* read_config returned a ConfigParser error from the chapter list
DirectiveFailed ==
    /\ pc = "returned"
    /\ result.st = "err" /\ result.kind = "ConfigParser"
    /\ Len(flushes) >= 1
    /\ flushes[Len(flushes)].final /\ flushes[Len(flushes)].st = "ok"

\* read_config returned the BookOption error of a front-matter key
FrontMatterRefused ==
    /\ pc = "returned"
    /\ result.st = "err" /\ result.kind = "BookOption"
    /\ Len(flushes) >= 1
    /\ flushes[Len(flushes)].st = "BookOption"

\* C22: an error read_config returns for a bad input line carries the 1-based
\* number of the offending line: the directive's own line for a malformed
\* chapter directive, the line holding the offending key for a front-matter
\* schema violation.
C22_ErrorLine ==
    /\ DirectiveFailed =>
          /\ result.line = pos
          /\ Directive(input[pos]).st = "err"
    /\ FrontMatterRefused =>
          HoldsRefusedKey(input, flushes[Len(flushes)], result.line)

\* the step is made by rendering: a render entry point or get_chapter_header
Rendering ==
    /\ call'.op \in RenderOps \cup {"get_chapter_header"}
    /\ (call' # call \/ invoked' # invoked \/ compiled' # compiled)

\* C23: once the book is loaded, rendering changes no state of the Book but
\* the chapter-header template; the template is compiled at most once per
\* Book, and a get_chapter_header call made after it was compiled uses the
\* stored template and compiles nothing.
C23_TemplateOnce ==
    [][/\ compiled' <= 1
       /\ Rendering =>
            /\ <<chapters', filenames', options', cleaner', formats'>>
                  = <<chapters, filenames, options, cleaner, formats>>
            /\ compiled >= 1 => compiled' = compiled]_vars

\* a closed block that is not applied because its body is not YAML or is not
\* a single mapping
IsUnappliedBlock(ls, B) == B.closed /\ ~IsMapping(YamlLoad(BlockBody(ls, B)))

\* C24: when an embedded block is not applied because it fails to parse or is
\* not a single mapping, ingestion succeeds and the block's raw text, with
\* its opening and closing delimiter lines, stands unchanged in the content
\* handed to the parser.
C24_UnappliedBlockKept ==
    [][SourceIngested =>
          \A q \in 1..Len(blocks') :
              IsUnappliedBlock(src, blocks'[q]) =>
                  BlockSurvives(src, blocks'[q], handed'[1])]_vars

\* the entry add_chapter appends for `file`, numbered as `number`
FileEntry(b, number, file) ==
    add_chapter(b, number, file, 0).chapters[Len(b.chapters) + 1]

\* C25: for the same content, numbering policy and options,
\* add_chapter_from_source appends the (Number, TokenSequence) entry that
\* add_chapter appends for a file of the book root; so with
\* resources.base_path set the in-memory chapter's links and images carry
\* that prefix.
C25_SameEntry ==
    [][SourceIngested =>
          \A file \in RootFiles :
              FileContent(file) = src =>
                  /\ chapters'[Len(chapters')]
                        = FileEntry(Book, chapters'[Len(chapters')].number, file)
                  /\ options["resources.base_path"] # Unset =>
                        /\ chapters'[Len(chapters')].tokens.link_offset
                              = options["resources.base_path"]
                        /\ chapters'[Len(chapters')].tokens.image_offset
                              = options["resources.base_path"]]_vars

\* the step is the final flush of read_config
FinalFlushed == pc = "flush" /\ pc' # "flush"

\* the final flush refused the buffer before any chapter was ingested
LoadRefused ==
    /\ pc' = "returned"
    /\ result'.st = "err"
    /\ result'.kind = "ConfigParser"
    /\ chapters' = <<>>
    /\ filenames' = <<>>

\* every front-matter line scanned so far was applied by a speculative flush
\* that ended on the line before the directive
AllApplied ==
    /\ pos < Len(input)
    /\ flushes # <<>>
    /\ flushes[Len(flushes)].st = "ok"
    /\ flushes[Len(flushes)].last = pos

\* C26: the scan of the front matter always ends in a final flush, run on an
\* empty buffer too; when the buffer is not a single mapping document,
\* read_config returns a ConfigParser error and no chapter has been
\* ingested.  So an input whose first line is a chapter directive, and an
\* input whose front matter was wholly applied by a speculative flush right
\* before a directive, fail to load.
C26_FinalFlushMandatory ==
    [][FinalFlushed =>
          /\ Len(flushes') = Len(flushes) + 1
          /\ flushes'[Len(flushes')].final
          /\ ~IsMapping(YamlLoad(yaml)) => LoadRefused
          /\ (pos = 0 /\ input # <<>>) => LoadRefused
          /\ AllApplied => LoadRefused]_vars

\* `title: X` was applied by the speculative flush before the directive, and
\* the final flush of the empty buffer made read_config fail
C26_Witness ==
    /\ pc = "returned"
    /\ Len(input) = 2
    /\ starts_with(input[2], DirectiveStart)
    /\ Len(flushes) = 2
    /\ flushes[1].st = "ok" /\ ~flushes[1].final
    /\ flushes[2].st = "ConfigParser" /\ flushes[2].final
    /\ options["title"] = <<"X">>
    /\ yaml = <<>>
    /\ chapters = <<>>
    /\ result.kind = "ConfigParser"

\* the step is a speculative flush of the front-matter scan
SpeculativelyFlushed == pc = "front" /\ Len(flushes') = Len(flushes) + 1

\* the successful applications that line i of the input belongs to
Applications(fl, i) ==
    {q \in 1..Len(fl) : fl[q].st = "ok" /\ fl[q].first <= i /\ i <= fl[q].last}

\* the front matter is loaded: the final flush succeeded
FrontMatterLoaded(fl) ==
    fl # <<>> /\ fl[Len(fl)].final /\ fl[Len(fl)].st = "ok"

\* C27: a speculative flush ends in one of three ways: it succeeds and the
\* buffer is cleared; it fails with a BookOption error and read_config
\* returns that error; it fails otherwise, the buffer and the Option Store
\* are as before and the scan goes on.  So no front-matter line belongs to
\* two successful applications, and once the front matter is loaded every
\* line of it belongs to exactly one.
C27_FlushOutcomes ==
    [][/\ SpeculativelyFlushed =>
            \/ /\ flushes'[Len(flushes')].st = "ok"
               /\ yaml' = <<>>
               /\ pc' = "front"
            \/ /\ flushes'[Len(flushes')].st = "BookOption"
               /\ pc' = "returned"
               /\ result'.kind = "BookOption"
            \/ /\ flushes'[Len(flushes')].st \notin {"ok", "BookOption"}
               /\ yaml' = Append(yaml, input[pos + 1])
               /\ options' = options
               /\ pc' = "front"
       /\ \A i \in 1..Len(input) : Cardinality(Applications(flushes', i)) <= 1
       /\ FrontMatterLoaded(flushes') =>
            \A i \in 1..flushes'[Len(flushes')].last :
                Cardinality(Applications(flushes', i)) = 1]_vars

\* the speculative flush of a blank first line failed as not a mapping, the
\* line stayed in the buffer, and the final flush applied both lines once
C27_Witness ==
    /\ pc = "returned"
    /\ result = Ok
    /\ Len(input) = 2
    /\ Len(flushes) = 2
    /\ flushes[1].st = "ConfigParser" /\ ~flushes[1].final
    /\ flushes[2].st = "ok" /\ flushes[2].final
    /\ flushes[2].first = 1 /\ flushes[2].last = 2
    /\ options["title"] = <<"X">>

\* the step reads the next line of the chapter list
ChapterLineRead == pc = "chapters" /\ pos < Len(input)

\* the line is blank or a comment
IsSkipped(l) == l = <<>> \/ Head(l) = "#"

\* the line is neither skipped nor led by a directive's first character
IsForeign(l) == l # <<>> /\ Head(l) \notin ({"#"} \cup DirectiveStart)

\* C28: in the chapter list a blank line or a line whose first non-blank
\* character is '#' is passed over without effect; a line whose first
\* non-blank character is none of '-', '+', '!' and a digit, an
\* `option: value` line among them, makes read_config return the
\* ConfigParser error "invalid chapter definition" for that line, and the
\* chapters ingested before it stay in the Book.
C28_ChapterListLines ==
    [][ChapterLineRead =>
          /\ IsSkipped(trim(input[pos + 1])) =>
                /\ pc' = "chapters"
                /\ <<chapters', filenames', options', cleaner', result'>>
                      = <<chapters, filenames, options, cleaner, result>>
          /\ IsForeign(trim(input[pos + 1])) =>
                /\ pc' = "returned"
                /\ result' = Err("ConfigParser", MsgInvalidDef, pos + 1)
                /\ <<chapters', filenames', options'>>
                      = <<chapters, filenames, options>>]_vars

\* `title: X` on the line after the directive `-a`: the chapter a is in the
\* Book and read_config has failed on line 3
C28_Witness ==
    /\ pc = "returned"
    /\ Len(input) = 3
    /\ input[3] = <<"title", ":", " ", "X">>
    /\ pos = 3
    /\ Len(chapters) = 1
    /\ filenames = << <<"a">> >>
    /\ result = Err("ConfigParser", MsgInvalidDef, 3)

\* line i lies in a block of the log, after the line that opened it
InBlock(bl, i) == \E q \in 1..Len(bl) : bl[q].first < i /\ i <= bl[q].last

\* line i opened a block of the log
Opens(bl, i) == \E q \in 1..Len(bl) : bl[q].first = i

\* the lines of ls that lie outside every block of the log, in order
Outside(ls, bl) ==
    SelectSeq([i \in 1..Len(ls) |->
                  IF Opens(bl, i) \/ InBlock(bl, i) THEN <<"<block>">> ELSE ls[i]],
              LAMBDA l : l # <<"<block>">>)

\* the lines of xs stand in ys, in the order of xs
RECURSIVE IsSubsequence(_, _)
IsSubsequence(xs, ys) ==
    IF xs = <<>> THEN TRUE
    ELSE IF ys = <<>> THEN FALSE
    ELSE IF Head(xs) = Head(ys) THEN IsSubsequence(Tail(xs), Tail(ys))
    ELSE IsSubsequence(xs, Tail(ys))

\* every `---` line outside the blocks opened before it opens a block
\* exactly when it is the first line or follows an empty line
OpensWhereAllowed(ls, bl) ==
    \A i \in 1..Len(ls) :
        (ls[i] = Dashes /\ ~InBlock(bl, i)) =>
            (Opens(bl, i) <=> (i = 1 \/ ls[i - 1] = <<>>))

\* C29 as stated: in a chapter's content a `---` line opens an embedded
\* block if and only if it is the first line or the line scanned before it
\* was empty; a `---` line anywhere else is content, and the lines outside
\* blocks reach the parser in their order.
C29_BlockOpens ==
    [][SourceIngested =>
          /\ OpensWhereAllowed(src, blocks')
          /\ IsSubsequence(Outside(src, blocks'), handed'[1])]_vars

\* C29, amended: when the content begins with a `---` line followed by
\* another line, or holds a `---` line between two other lines, a `---`
\* line opens an embedded block if and only if it is the first line or the
\* line scanned before it was empty, a `---` line anywhere else is content,
\* and the lines outside blocks reach the parser in their order; any other
\* content is not scanned: no `---` line of it opens a block and the content
\* reaches the parser as it is.
C29_BlockOpensWhenScanned ==
    [][SourceIngested =>
          /\ MayContainYaml(src) =>
                /\ OpensWhereAllowed(src, blocks')
                /\ IsSubsequence(Outside(src, blocks'), handed'[1])
          /\ ~MayContainYaml(src) =>
                /\ blocks' = <<>>
                /\ handed'[1] = src]_vars

\* the block `author: Z` was taken out and the `---` line right after its
\* closing delimiter reached the parser as content
C29_Witness ==
    /\ filenames = << <<>> >>
    /\ Len(chapters) = 1
    /\ src = BlockAuthorZ \o <<Dashes>>
    /\ Len(blocks) = 1
    /\ blocks[1].first = 1 /\ blocks[1].last = 3
    /\ handed = << <<Dashes>> >>

\* the step is an add_chapter call on a readable file whose text the parser
\* takes
FileParsed ==
    /\ pc = "idle"
    /\ Len(filenames') = Len(filenames) + 1
    /\ filenames'[Len(filenames')] \in ExistingFiles
    /\ Len(handed') = 1
    /\ ~ParserFails(handed'[1])

\* a closed block of the log whose body is not YAML
HoldsUnparsedBlock(ls, bl) ==
    \E q \in 1..Len(bl) :
        bl[q].closed /\ YamlLoad(BlockBody(ls, bl[q])).st = "err"

\* one of the three anomalies met the ingestion of `file`
Anomaly(file, opts, bl) ==
    \/ IsAboveRoot(file)
    \/ is_proofread(opts) /\ checker' = "Some" /\ CheckerFails(file)
    \/ HoldsUnparsedBlock(FileContent(file), bl)

\* C30: a chapter directory above the book root, a failure of the
\* proofreading hook and an embedded block that does not parse do not make
\* add_chapter fail: when the file is readable and the parser succeeds, the
\* call returns Ok and the chapter is appended once.
C30_AnomaliesTolerated ==
    [][(/\ FileParsed
        /\ Anomaly(filenames'[Len(filenames')], options', blocks')) =>
          /\ result' = Ok
          /\ Len(chapters') = Len(chapters) + 1
          /\ SubSeq(chapters', 1, Len(chapters)) = chapters
          /\ chapters'[Len(chapters')].tokens.text = handed'[1]]_vars

\* proofreading is on and the checker refused chapter g: the chapter is in
\* the Book, unannotated
C30_Witness ==
    /\ is_proofread(options)
    /\ checker = "Some"
    /\ filenames = << <<"g">> >>
    /\ result = Ok
    /\ Len(chapters) = 1
    /\ ~chapters[1].tokens.checked

\* no operation of the Book is under way, and the last one returned
AtRest == pc \in {"idle", "returned"} /\ result # Panic

\* C31: after every public operation of the Book that returns, Book::new
\* among them and whether it succeeded or failed, the active cleaner is the
\* one the current options determine: Off when input.clean is false, French
\* when it is true and lang starts with "fr", Default otherwise.
C31_CleanerFollowsOptions == AtRest => cleaner = update_cleaner(options)

\* xs is the beginning of ys
IsPrefix(xs, ys) == Len(xs) <= Len(ys) /\ SubSeq(ys, 1, Len(xs)) = xs

\* the step is a chapter directive on which read_config fails
DirectiveRefused == pc = "chapters" /\ pc' = "returned" /\ result'.st = "err"

\* C33: read_config is not atomic.  When it fails at a chapter directive the
\* options its front matter applied and the chapters of the directives
\* before stay in the Book and the chapter-header template is not compiled;
\* a later read_config on the same Book starts from the chapters that are
\* there and appends to them.
C33_NotAtomic ==
    [][/\ DirectiveRefused =>
            /\ options' = options
            /\ chapters' = chapters
            /\ IsPrefix(filenames, filenames')
            /\ chapter_template' = "None"
            /\ compiled' = 0
       /\ IsPrefix(chapters, chapters')
       /\ IsPrefix(filenames, filenames')]_vars

\* `lang: fr`, `-a`, `-m` read twice: each call applied the option, ingested
\* chapter a and failed on the missing file m
C33_Witness ==
    /\ pc = "returned"
    /\ result.kind = "FileNotFound"
    /\ input = << <<"lang", ":", " ", "fr">>, <<"-", "a">>, <<"-", "m">> >>
    /\ options["lang"] = <<"fr">>
    /\ Len(chapters) = 2
    /\ filenames = << <<"a">>, <<"m">>, <<"a">>, <<"m">> >>
    /\ chapter_template = "None"
    /\ compiled = 0

\* add_chapter has returned Ok on a file whose text went through the scan
ChapterScanned ==
    /\ Len(chapters') = Len(chapters) + 1
    /\ MayContainYaml(FileContent(filenames'[Len(filenames')]))

\* the chapter just pushed went through the grammar checker
ChapterChecked ==
    /\ Len(chapters') = Len(chapters) + 1
    /\ chapters'[Len(chapters')].tokens.checked

\* C32: the hook handle follows the options: after the scan of a chapter's
\* embedded blocks the handle is present only if the options then in force
\* ask for it, and a chapter is passed to the checker only if the options in
\* force at its ingestion ask for it; options that asked for it earlier and
\* were switched off since have no effect
C32_HookFollowsOptions ==
    [][/\ ChapterScanned => (checker' = "Some" => HookActive(options'))
       /\ ChapterChecked => HookActive(options')]_vars

\* the texts compiled into the program
Builtins ==
    {"epub::CSS", "epub::TEMPLATE", "epub3::TEMPLATE", "html::CSS",
     "html::CSS_COLOURS", "html::PRINT_CSS", "html_single::HTML",
     "html_single::JS", "html::JS", "html_dir::INDEX_HTML",
     "html_dir::CHAPTER_HTML", "highlight::JS", "highlight::CSS",
     "latex::TEMPLATE"}

\* get_template has just returned
TemplateFetched == fetched' # fetched

IsBuiltin(f) ==
    /\ f.res = Ok
    /\ ~f.owned
    /\ \E t \in Builtins : f.text = <<t>>
    /\ f.template = "epub.chapter.xhtml" =>
          f.text = IF digits_value(options["epub.version"]) = 3
                   THEN <<"epub3::TEMPLATE">> ELSE <<"epub::TEMPLATE">>
    /\ f.template # "epub.chapter.xhtml" =>
          f.text \notin {<<"epub3::TEMPLATE">>, <<"epub::TEMPLATE">>}

IsUserFile(f, path) ==
    IF path \in ExistingFiles
    THEN f.res = Ok /\ f.owned /\ f.text = FileContent(path)
    ELSE f.res.st = "err" /\ f.res.kind \in {"FileNotFound", "ConfigParser"}

\* C34: get_template returns the ConfigParser error "invalid template" for
\* every name outside the recognized set; for a recognized name it returns
\* the text of the file the option of that name points to when the option is
\* set (an error when the file cannot be opened or read) and the builtin text
\* otherwise, which for epub.chapter.xhtml is the EPUB3 one exactly when
\* epub.version is 3
C34_GetTemplate ==
    [][TemplateFetched =>
         IF fetched'.template \notin TemplateKeys
         THEN /\ fetched'.res.st = "err"
              /\ fetched'.res.kind = "ConfigParser"
              /\ fetched'.res.msg = MsgInvalidTemplate
         ELSE IF options[fetched'.template] # Unset
         THEN IsUserFile(fetched', options[fetched'.template])
         ELSE IsBuiltin(fetched')]_vars

\* the EPUB chapter template was asked for with epub.version = 3 and no file
\* of the user's, and the EPUB3 builtin came back
C34_Witness ==
    /\ fetched.template = "epub.chapter.xhtml"
    /\ options["epub.version"] = <<"3">>
    /\ options["epub.chapter.xhtml"] = Unset
    /\ fetched.res = Ok
    /\ fetched.text = <<"epub3::TEMPLATE">>

====
